---- MODULE Spec2Model ----
(***************************************************************************)
(* State-machine model of the LTE downlink scheduler simulator             *)
(* (sherokiddo/project_py_scheduler): the resource grid (RES_GRID.py),     *)
(* the BS-owned downlink buffer (BS_MODULE.py) and the per-TTI schedulers  *)
(* (SCHEDULER.py).                                                         *)
(*                                                                         *)
(* Python objects are modelled as records and every method as an operator  *)
(* from the object's value (and the arguments) to the new value and the    *)
(* returned value; the actions of each specification apply one method      *)
(* call to the state and record the call and what it returned.             *)
(***************************************************************************)
EXTENDS Integers, Sequences, FiniteSets, TLC

VARIABLES
    lte_grid,    \* the RES_GRID_LTE object: rb_map, stats, current_tti
    grid_call,   \* the last call made on the grid, and what it returned
    buffer,      \* one Buffer object (queues, sizes, total_size, counters)
    buf_call,    \* the last call made on the buffer, and what it returned
    clock,       \* simulation time in ms (the current_time / tti the callers pass)
    calls,       \* how many calls the callers have made so far
    ue_buffers,  \* BaseStation.ue_buffers: one Buffer per registered UE
    ue_state,    \* per UE: current_dl_throughput and average_throughput
    last_served_ue_id,  \* RoundRobinScheduler.last_served_ue_id
    policy,      \* which scheduler class was constructed on the grid
    sched_call,  \* the last schedule(tti, users) call, and what it produced
    ue_traffic_models,  \* the keys of BaseStation.ue_traffic_models, in order
    bs_call,     \* the last GEN_TRFFC call made on the base station
    amc_call,    \* the last GET_BITS_PER_RB call, and the one before it
    fairness_call,  \* the last computation of Jain's fairness index
    rr_legacy,   \* the legacy RoundRobinScheduler (src/SCHEDULER.py) and its last call
    on_off       \* OnOffModel.device_states and the last generate_traffic call

gridVars == <<lte_grid, grid_call>>
bufVars == <<buffer, buf_call>>
schedVars == <<ue_buffers, ue_state, last_served_ue_id, policy, sched_call,
               ue_traffic_models, bs_call>>

calcVars == <<amc_call, fairness_call, rr_legacy, on_off>>

vars == <<lte_grid, grid_call, buffer, buf_call, clock, calls,
          ue_buffers, ue_state, last_served_ue_id, policy, sched_call,
          ue_traffic_models, bs_call, amc_call, fairness_call, rr_legacy, on_off>>

-----------------------------------------------------------------------------
(* Bounds of the model *)

\* number of registered UEs; UE ids are 1..NumUE
NumUE == 2
\* num_frames the grid is constructed with
NumFrames == 2
\* rb_per_slot of the modelled cell (a narrow cell keeps the grid small)
RbPerSlot == 3

(* Program constants *)

\* Frame.__init__: a frame is range(10) subframes
SubframesPerFrame == 10

UEs == 1 .. NumUE
\* Python None, where the code holds "no UE"
NoUE == 0

-----------------------------------------------------------------------------
(* Python dict helpers: a dict is a function whose DOMAIN is its key set *)

DictGet(d, k, default) == IF k \in DOMAIN d THEN d[k] ELSE default

DictPut(d, k, v) == [x \in (DOMAIN d) \cup {k} |-> IF x = k THEN v ELSE d[x]]

DictDel(d, k) == [x \in (DOMAIN d) \ {k} |-> d[x]]

EmptyDict == [x \in {} |-> 0]

-----------------------------------------------------------------------------
(* RES_GRID.py: resource blocks and the grid *)

\* RES_BLCK.__init__: a new block is free and has no user
RES_BLCK == [status |-> "free", UE_ID |-> NoUE]

\* RES_BLCK.CHCK_RB
CHCK_RB(rb) == rb.status = "free"

\* RES_BLCK.ASSIGN_RB: [rb, ret]
ASSIGN_RB(rb, UE_ID) ==
    IF rb.status = "free"
    THEN [rb |-> [status |-> "assigned", UE_ID |-> UE_ID], ret |-> TRUE]
    ELSE [rb |-> rb, ret |-> FALSE]

\* RES_BLCK.RELEASE_RB (of the block itself): always succeeds
RELEASE_BLCK(rb) == [rb |-> [status |-> "free", UE_ID |-> NoUE], ret |-> TRUE]

\* the slot id string "sub_{n}_slot_{s}" as the pair <<n, s>>
SlotId(n, s) == <<n, s>>

TotalTti == NumFrames * SubframesPerFrame

\* _init_rb_map: key (tti, slot.id, rb.freq_idx), where tti = frame.id*10 +
\* subframe.id and slot.id is built from the subframe id within its frame
RbKeys ==
    { <<fr * SubframesPerFrame + sf, SlotId(sf, s), f>> :
        fr \in 0 .. NumFrames - 1, sf \in 0 .. SubframesPerFrame - 1,
        s \in 0 .. 1, f \in 0 .. RbPerSlot - 1 }

\* the "stats" dict as RES_GRID_LTE.__init__ (and RESET_GRID) build it
InitStats ==
    [ allocated_rbs      |-> 0,
      total_rbs          |-> RbPerSlot * 2 * TotalTti,
      allocation_by_user |-> EmptyDict,
      allocation_by_tti  |-> [t \in 0 .. TotalTti - 1 |-> 0] ]

\* RES_GRID_LTE.__init__
InitGrid ==
    [ rb_map      |-> [k \in RbKeys |-> RES_BLCK],
      current_tti |-> 0,
      stats       |-> InitStats ]

\* RES_GRID_LTE.GET_RB is rb_map.get(key): HasRB says whether it is not None
HasRB(G, tti, slot_id, freq_idx) == <<tti, slot_id, freq_idx>> \in DOMAIN G.rb_map

GET_RB(G, tti, slot_id, freq_idx) == G.rb_map[<<tti, slot_id, freq_idx>>]

\* ALLOCATE_RB with the free check dropped: the block is handed over whoever owns it
ALLOCATE_RB_overwrite(G, tti, slot_id, freq_idx, UE_ID) ==
    IF freq_idx >= RbPerSlot \/ ~HasRB(G, tti, slot_id, freq_idx)
    THEN [grid |-> G, ret |-> FALSE]
    ELSE [ grid |-> [G EXCEPT
                 !.rb_map[<<tti, slot_id, freq_idx>>] =
                     [status |-> "assigned", UE_ID |-> UE_ID],
                 !.stats.allocated_rbs = @ + 1,
                 !.stats.allocation_by_user = DictPut(@, UE_ID, DictGet(@, UE_ID, 0) + 1),
                 !.stats.allocation_by_tti[tti] = @ + 1],
           ret |-> TRUE ]

\* RES_GRID_LTE.ALLOCATE_RB: [grid, ret]
ALLOCATE_RB(G, tti, slot_id, freq_idx, UE_ID) ==
    IF freq_idx >= RbPerSlot
    THEN [grid |-> G, ret |-> FALSE]
    ELSE IF HasRB(G, tti, slot_id, freq_idx)
            /\ CHCK_RB(GET_RB(G, tti, slot_id, freq_idx))
         THEN LET a == ASSIGN_RB(GET_RB(G, tti, slot_id, freq_idx), UE_ID) IN
              IF a.ret
              THEN [ grid |-> [G EXCEPT
                         !.rb_map[<<tti, slot_id, freq_idx>>] = a.rb,
                         !.stats.allocated_rbs = @ + 1,
                         !.stats.allocation_by_user =
                             DictPut(@, UE_ID, DictGet(@, UE_ID, 0) + 1),
                         !.stats.allocation_by_tti[tti] = @ + 1],
                     ret |-> TRUE ]
              ELSE [grid |-> G, ret |-> FALSE]
         ELSE [grid |-> G, ret |-> FALSE]

\* RELEASE_RB that forgets the per-TTI counter and keeps a zero per-user entry
RELEASE_RB_stale(G, tti, slot_id, freq_idx) ==
    IF HasRB(G, tti, slot_id, freq_idx) /\ ~CHCK_RB(GET_RB(G, tti, slot_id, freq_idx))
    THEN LET UE_ID == GET_RB(G, tti, slot_id, freq_idx).UE_ID
             count == DictGet(G.stats.allocation_by_user, UE_ID, 0) - 1
         IN  [ grid |-> [G EXCEPT
                   !.rb_map[<<tti, slot_id, freq_idx>>] = RES_BLCK,
                   !.stats.allocated_rbs = @ - 1,
                   !.stats.allocation_by_user = DictPut(@, UE_ID, count)],
               ret |-> TRUE ]
    ELSE [grid |-> G, ret |-> FALSE]

\* RES_GRID_LTE.RELEASE_RB: [grid, ret]
RELEASE_RB(G, tti, slot_id, freq_idx) ==
    IF HasRB(G, tti, slot_id, freq_idx) /\ ~CHCK_RB(GET_RB(G, tti, slot_id, freq_idx))
    THEN LET UE_ID == GET_RB(G, tti, slot_id, freq_idx).UE_ID
             r     == RELEASE_BLCK(GET_RB(G, tti, slot_id, freq_idx))
             current_user_count == DictGet(G.stats.allocation_by_user, UE_ID, 0) - 1
         IN  IF r.ret
             THEN [ grid |-> [G EXCEPT
                        !.rb_map[<<tti, slot_id, freq_idx>>] = r.rb,
                        !.stats.allocated_rbs = @ - 1,
                        !.stats.allocation_by_user =
                            IF current_user_count <= 0
                            THEN DictDel(@, UE_ID)
                            ELSE DictPut(@, UE_ID, current_user_count),
                        !.stats.allocation_by_tti =
                            IF tti \in DOMAIN @ THEN [@ EXCEPT ![tti] = @ - 1] ELSE @],
                    ret |-> TRUE ]
             ELSE [grid |-> G, ret |-> FALSE]
    ELSE [grid |-> G, ret |-> FALSE]

\* one pass of the loop of ALLOCATE_RB_GROUP over a slot: [grid, ret], where
\* ret is the running "success"
GroupStep(acc, tti, s, freq_idx, UE_ID) ==
    LET slot_id == SlotId(tti, s)       \* "sub_{}_slot_s".format(tti)
        a == ALLOCATE_RB(acc.grid, tti, slot_id, freq_idx, UE_ID)
    IN  IF ~a.ret
        THEN [grid |-> RELEASE_RB(a.grid, tti, slot_id, freq_idx).grid, ret |-> FALSE]
        ELSE [grid |-> a.grid, ret |-> acc.ret]

\* RES_GRID_LTE.ALLOCATE_RB_GROUP: [grid, ret]
ALLOCATE_RB_GROUP(G, tti, freq_idx, UE_ID) ==
    GroupStep(GroupStep([grid |-> G, ret |-> TRUE], tti, 0, freq_idx, UE_ID),
              tti, 1, freq_idx, UE_ID)

-----------------------------------------------------------------------------
(* BS_MODULE.py: Packet and Buffer *)

\* Python None, where the code holds "no time yet"
NoTime == -1

\* Packet.__init__ (priority keeps its default)
Packet(size, ue_id, creation_time, ttl_ms, is_fragment) ==
    [ size |-> size, ue_id |-> ue_id, creation_time |-> creation_time,
      priority |-> 0, ttl_ms |-> ttl_ms, is_fragment |-> is_fragment ]

\* sum(p.size for p in packets)
RECURSIVE SumSizes(_)
SumSizes(packets) ==
    IF packets = <<>> THEN 0 ELSE Head(packets).size + SumSizes(Tail(packets))

\* sum(self.sizes.values())
RECURSIVE SumOver(_, _)
SumOver(f, S) ==
    IF S = {} THEN 0
    ELSE LET x == CHOOSE y \in S : TRUE IN f[x] + SumOver(f, S \ {x})

\* Buffer.__init__: the defaultdicts are total functions holding their defaults
NewBuffer(global_max, per_ue_max) ==
    [ global_max    |-> global_max,
      per_ue_max    |-> per_ue_max,
      total_size    |-> 0,
      queues        |-> [u \in UEs |-> <<>>],
      sizes         |-> [u \in UEs |-> 0],
      dropped       |-> [u \in UEs |-> 0],
      expired       |-> [u \in UEs |-> 0],
      dropped_info  |-> [u \in UEs |-> <<>>],
      ingress_stats |-> [u \in UEs |-> [total_bytes |-> 0, start_time |-> NoTime,
                                        last_update |-> NoTime]] ]

\* the test ADD_PACKET and GET_PACKETS keep a packet by
NotExpired(p, current_time) == current_time - p.creation_time <= p.ttl_ms

\* a sweep that keeps every packet, whatever its age
ValidPackets_keepAll(queue, current_time) == queue

\* the packets the sweep of ADD_PACKET and GET_PACKETS keeps
ValidPackets(queue, current_time) ==
    SelectSeq(queue, LAMBDA p : NotExpired(p, current_time))

\* ADD_PACKET, step 1: the TTL sweep of the target queue and the recount
AddSweep(B, ue_id, current_time) ==
    LET valid_packets == ValidPackets(B.queues[ue_id], current_time)
        expired_count == Len(B.queues[ue_id]) - Len(valid_packets)
        B1 == [B EXCEPT !.queues[ue_id] = valid_packets,
                        !.sizes[ue_id] = SumSizes(valid_packets),
                        !.expired[ue_id] = @ + expired_count]
    IN  [B1 EXCEPT !.total_size = SumOver(B1.sizes, UEs)]

\* the admission test with >= for >: a packet that fits exactly is refused
RejectReason_atLimit(S, packet) ==
    IF S.sizes[packet.ue_id] + packet.size >= S.per_ue_max THEN "ue_limit"
    ELSE IF S.total_size + packet.size >= S.global_max THEN "global_limit"
    ELSE "none"

\* ADD_PACKET, step 2: reject_reason ("none" for None)
RejectReason(S, packet) ==
    IF S.sizes[packet.ue_id] + packet.size > S.per_ue_max THEN "ue_limit"
    ELSE IF S.total_size + packet.size > S.global_max THEN "global_limit"
    ELSE "none"

\* a reject that has already counted the packet in the ingress statistics
RejectPacket_counted(S, packet, reject_reason) ==
    [S EXCEPT !.dropped[packet.ue_id] = @ + 1,
              !.dropped_info[packet.ue_id] =
                  Append(@, [size |-> packet.size,
                             creation_time |-> packet.creation_time,
                             priority |-> packet.priority,
                             reason |-> reject_reason]),
              !.ingress_stats[packet.ue_id].total_bytes = @ + packet.size]

\* ADD_PACKET, the "if reject_reason" branch
RejectPacket(S, packet, reject_reason) ==
    [S EXCEPT !.dropped[packet.ue_id] = @ + 1,
              !.dropped_info[packet.ue_id] =
                  Append(@, [size |-> packet.size,
                             creation_time |-> packet.creation_time,
                             priority |-> packet.priority,
                             reason |-> reject_reason])]

\* "not stats['start_time']": None and 0 are both falsy
Falsy(t) == t = NoTime \/ t = 0

\* ADD_PACKET, steps 3 and 4: ingress statistics, then the append
AdmitPacket(S, packet, current_time) ==
    [S EXCEPT !.ingress_stats[packet.ue_id] =
                  [ total_bytes |-> @.total_bytes + packet.size,
                    start_time  |-> IF Falsy(@.start_time) THEN current_time
                                    ELSE @.start_time,
                    last_update |-> current_time ],
              !.queues[packet.ue_id] = Append(@, packet),
              !.sizes[packet.ue_id] = @ + packet.size,
              !.total_size = @ + packet.size]

\* Buffer.ADD_PACKET: [buf, ret]
ADD_PACKET(B, packet, current_time) ==
    LET S == AddSweep(B, packet.ue_id, current_time)
        reject_reason == RejectReason(S, packet)
    IN  IF reject_reason # "none"
        THEN [buf |-> RejectPacket(S, packet, reject_reason), ret |-> FALSE]
        ELSE [buf |-> AdmitPacket(S, packet, current_time), ret |-> TRUE]

\* a fragmentation that forgets to shrink the packet it cut the fragment from
FragmentHead_keepSize(packet, fragment_size, current_time) ==
    [packet EXCEPT !.creation_time = current_time]

\* GET_PACKETS 3.2: what is left of the head packet after a fragment is cut
FragmentHead(packet, fragment_size, current_time) ==
    [packet EXCEPT !.size = @ - fragment_size, !.creation_time = current_time]

\* an extraction loop that never fragments: it stops at the first packet
\* that does not fit
RECURSIVE ExtractLoop_wholeOnly(_, _, _, _)
ExtractLoop_wholeOnly(L, ue_id, max_bits, current_time) ==
    IF ~(L.queue # <<>> /\ L.total_bits < max_bits) THEN L
    ELSE LET packet == Head(L.queue)
             packet_size_bits == packet.size * 8
         IN  IF L.total_bits + packet_size_bits <= max_bits
             THEN ExtractLoop_wholeOnly(
                      [ queue |-> Tail(L.queue),
                        selected |-> Append(L.selected, packet),
                        total_bits |-> L.total_bits + packet_size_bits,
                        extracted_size |-> L.extracted_size + packet.size ],
                      ue_id, max_bits, current_time)
             ELSE L

\* GET_PACKETS 3: the extraction loop, from the state
\* L = [queue, selected, total_bits, extracted_size] on
RECURSIVE ExtractLoop(_, _, _, _)
ExtractLoop(L, ue_id, max_bits, current_time) ==
    IF ~(L.queue # <<>> /\ L.total_bits < max_bits) THEN L
    ELSE LET packet == Head(L.queue)
             packet_size_bits == packet.size * 8
         IN  IF L.total_bits + packet_size_bits <= max_bits
             THEN ExtractLoop(
                      [ queue |-> Tail(L.queue),
                        selected |-> Append(L.selected, packet),
                        total_bits |-> L.total_bits + packet_size_bits,
                        extracted_size |-> L.extracted_size + packet.size ],
                      ue_id, max_bits, current_time)
             ELSE LET remaining_bits == max_bits - L.total_bits
                      fragment_size == remaining_bits \div 8
                      fragment == [ size |-> fragment_size, ue_id |-> ue_id,
                                    creation_time |-> packet.creation_time,
                                    priority |-> packet.priority,
                                    ttl_ms |-> packet.ttl_ms,
                                    is_fragment |-> TRUE ]
                  IN  [ queue |-> <<FragmentHead(packet, fragment_size, current_time)>>
                                     \o Tail(L.queue),
                        selected |-> Append(L.selected, fragment),
                        total_bits |-> L.total_bits + fragment_size * 8,
                        extracted_size |-> L.extracted_size + fragment_size ]

\* a GET_PACKETS that forgets step 4, the debit of sizes and total_size
GET_PACKETS_noDebit(B, ue_id, max_bytes, current_time) ==
    LET swept == ValidPackets(B.queues[ue_id], current_time)
        L == ExtractLoop([queue |-> swept, selected |-> <<>>, total_bits |-> 0,
                          extracted_size |-> 0],
                         ue_id, max_bytes * 8, current_time)
    IN  [ buf |-> [B EXCEPT !.queues[ue_id] = L.queue],
          selected |-> L.selected,
          exact_bytes |-> L.total_bits \div 8 ]

\* Buffer.GET_PACKETS: [buf, selected, exact_bytes] (bits_per_rb is not used)
GET_PACKETS(B, ue_id, max_bytes, current_time) ==
    LET swept == ValidPackets(B.queues[ue_id], current_time)
        L == ExtractLoop([queue |-> swept, selected |-> <<>>, total_bits |-> 0,
                          extracted_size |-> 0],
                         ue_id, max_bytes * 8, current_time)
    IN  [ buf |-> [B EXCEPT !.queues[ue_id] = L.queue,
                            !.sizes[ue_id] = @ - L.extracted_size,
                            !.total_size = @ - L.extracted_size],
          selected |-> L.selected,
          exact_bytes |-> L.total_bits \div 8 ]

\* Buffer.DESTROY_UE_PACKETS (every ue_id is a key of queues here)
DESTROY_UE_PACKETS(B, ue_id) ==
    [B EXCEPT !.queues[ue_id] = <<>>,
              !.sizes[ue_id] = 0,
              !.dropped[ue_id] = 0,
              !.expired[ue_id] = 0]

Max(a, b) == IF a >= b THEN a ELSE b

\* Buffer.UPD_UE_BUFFER: [buf, ret]; a packet goes when its age has reached ttl_ms
UPD_UE_BUFFER(B, ue_id, current_time) ==
    LET valid_packets ==
            SelectSeq(B.queues[ue_id],
                      LAMBDA p : ~(current_time - p.creation_time >= p.ttl_ms))
        expired_count == Len(B.queues[ue_id]) - Len(valid_packets)
    IN  [ buf |-> [B EXCEPT !.queues[ue_id] = valid_packets,
                            !.sizes[ue_id] = Max(0, SumSizes(valid_packets)),
                            !.expired[ue_id] = @ + expired_count],
          ret |-> expired_count ]

-----------------------------------------------------------------------------
(* The calls a user of the grid makes (SpecGrid) *)

\* TTIs the calls name: the first TTI and one of the second frame
\* RES_GRID_LTE.RESET_GRID: [grid, outcome]. The loop calls rb.RELEASE_RB_RB()
\* on the first block of the first frame; RES_BLCK has no such method
\* (its method is RELEASE_RB), so with any block in the grid the call raises
\* AttributeError before anything is changed
RESET_GRID(G) ==
    IF DOMAIN G.rb_map # {}
    THEN [ grid |-> G, outcome |-> "AttributeError" ]
    ELSE [ grid |-> [G EXCEPT !.current_tti = 0, !.stats = InitStats],
           outcome |-> "returned" ]

GridTtis == {0, SubframesPerFrame + 1}
\* slot ids the calls name: built from the subframe id, or from the TTI
GridSlots(tti) == { SlotId(n, s) : n \in {tti % SubframesPerFrame, tti}, s \in 0 .. 1 }
\* frequency indices the calls name: the last one and one past the end
GridFreqs == {RbPerSlot - 1, RbPerSlot}

NoSlot == SlotId(-1, -1)

InitGridCall ==
    [op |-> "init", tti |-> 0, slot_id |-> NoSlot, freq_idx |-> 0, UE_ID |-> NoUE,
     ret |-> FALSE, outcome |-> "none"]

\* the caps the modelled Buffer is constructed with: per_ue_max, and a
\* global_max that two full queues exceed
PerUeMax == 3
GlobalMax == PerUeMax + 1

InitBuffer == NewBuffer(GlobalMax, PerUeMax)

NoPacket == Packet(0, NoUE, 0, 0, FALSE)

InitBufCall ==
    [ op |-> "init", ue_id |-> NoUE, packet |-> NoPacket, max_bytes |-> 0,
      now |-> 0, ret |-> FALSE, selected |-> <<>>, bytes |-> 0 ]

\* nothing of the scheduler is constructed when the grid or a Buffer is used
\* on its own
NoScheduler ==
    /\ ue_buffers = EmptyDict
    /\ ue_state = EmptyDict
    /\ last_served_ue_id = NoUE
    /\ policy = "none"
    /\ sched_call = EmptyDict
    /\ ue_traffic_models = <<>>
    /\ bs_call = EmptyDict

\* no bits-per-RB lookup and no fairness index has been computed
\* neither the legacy scheduler nor an ON/OFF traffic model is constructed
NoLegacy ==
    /\ rr_legacy = EmptyDict
    /\ on_off = EmptyDict

NoCalc ==
    /\ amc_call = EmptyDict
    /\ fairness_call = EmptyDict
    /\ NoLegacy

InitRest == /\ buffer = InitBuffer
            /\ buf_call = InitBufCall
            /\ clock = 0
            /\ calls = 0
            /\ NoScheduler
            /\ NoCalc

InitGridSpec ==
    /\ lte_grid = InitGrid
    /\ grid_call = InitGridCall
    /\ InitRest

AllocateRb ==
    \E tti \in GridTtis, f \in GridFreqs, u \in UEs :
      \E slot_id \in GridSlots(tti) :
        LET r == ALLOCATE_RB(lte_grid, tti, slot_id, f, u) IN
        /\ lte_grid' = r.grid
        /\ grid_call' = [op |-> "ALLOCATE_RB", tti |-> tti, slot_id |-> slot_id,
                         freq_idx |-> f, UE_ID |-> u, ret |-> r.ret,
                         outcome |-> "returned"]
        /\ UNCHANGED <<calcVars, bufVars, schedVars, clock, calls>>

ReleaseRb ==
    \E tti \in GridTtis, f \in GridFreqs :
      \E slot_id \in GridSlots(tti) :
        LET r == RELEASE_RB(lte_grid, tti, slot_id, f) IN
        /\ lte_grid' = r.grid
        /\ grid_call' = [op |-> "RELEASE_RB", tti |-> tti, slot_id |-> slot_id,
                         freq_idx |-> f, UE_ID |-> NoUE, ret |-> r.ret,
                         outcome |-> "returned"]
        /\ UNCHANGED <<calcVars, bufVars, schedVars, clock, calls>>

AllocateRbGroup ==
    \E tti \in GridTtis, f \in GridFreqs, u \in UEs :
        LET r == ALLOCATE_RB_GROUP(lte_grid, tti, f, u) IN
        /\ lte_grid' = r.grid
        /\ grid_call' = [op |-> "ALLOCATE_RB_GROUP", tti |-> tti, slot_id |-> NoSlot,
                         freq_idx |-> f, UE_ID |-> u, ret |-> r.ret,
                         outcome |-> "returned"]
        /\ UNCHANGED <<calcVars, bufVars, schedVars, clock, calls>>

ResetGrid ==
    \E r \in { RESET_GRID(lte_grid) } :
        /\ lte_grid' = r.grid
        /\ grid_call' = [op |-> "RESET_GRID", tti |-> 0, slot_id |-> NoSlot,
                         freq_idx |-> 0, UE_ID |-> NoUE, ret |-> FALSE,
                         outcome |-> r.outcome]
        /\ UNCHANGED <<calcVars, bufVars, schedVars, clock, calls>>

NextGrid == AllocateRb \/ ReleaseRb \/ AllocateRbGroup \/ ResetGrid

SpecGrid == InitGridSpec /\ [][NextGrid]_vars

-----------------------------------------------------------------------------
(* Claims about the grid, checked under SpecGrid *)

Owner(G, k) == G.rb_map[k].UE_ID

AssignedKeys(G) == { k \in RbKeys : G.rb_map[k].status = "assigned" }

\* the key under which rb_map holds the block (tti, slot s, freq_idx)
RbKey(tti, s, freq_idx) == <<tti, SlotId(tti % SubframesPerFrame, s), freq_idx>>

\* C1: ALLOCATE_RB on a block that is already assigned returns false and leaves
\* the grid (owners and counters) unchanged; in every call a block has no owner
\* exactly when it is free, and an owned block never passes to another UE
\* directly: the only owner an owned block can change to is "none" (a release).
C1_AssignedBlockRefused ==
    [][ /\ ( /\ grid_call'.op = "ALLOCATE_RB"
             /\ HasRB(lte_grid, grid_call'.tti, grid_call'.slot_id, grid_call'.freq_idx)
             /\ ~CHCK_RB(GET_RB(lte_grid, grid_call'.tti, grid_call'.slot_id,
                                grid_call'.freq_idx)) )
           => (grid_call'.ret = FALSE /\ lte_grid' = lte_grid)
        /\ \A k \in RbKeys :
             /\ (lte_grid'.rb_map[k].status = "free") <=> (Owner(lte_grid', k) = NoUE)
             /\ (Owner(lte_grid, k) # NoUE /\ Owner(lte_grid', k) # Owner(lte_grid, k))
                   => Owner(lte_grid', k) = NoUE
      ]_vars

\* C1 witness: a UE asked for a block another UE owns and was refused
C1_Witness ==
    /\ grid_call.op = "ALLOCATE_RB"
    /\ grid_call.ret = FALSE
    /\ HasRB(lte_grid, grid_call.tti, grid_call.slot_id, grid_call.freq_idx)
    /\ GET_RB(lte_grid, grid_call.tti, grid_call.slot_id, grid_call.freq_idx).UE_ID
          \notin {NoUE, grid_call.UE_ID}

\* C2: the counters match the block states: allocated_rbs is the number of
\* assigned blocks, allocation_by_tti[t] the number of assigned blocks of TTI t,
\* allocation_by_user[u] the number of blocks u owns; no counter is negative and
\* allocation_by_user has no entry for a UE that owns nothing.
C2_CountersMatch ==
    LET st == lte_grid.stats
        A  == AssignedKeys(lte_grid)
    IN  /\ st.allocated_rbs = Cardinality(A)
        /\ \A t \in 0 .. TotalTti - 1 :
             st.allocation_by_tti[t] = Cardinality({k \in A : k[1] = t})
        /\ \A u \in UEs :
             DictGet(st.allocation_by_user, u, 0)
                = Cardinality({k \in A : Owner(lte_grid, k) = u})
        /\ \A u \in DOMAIN st.allocation_by_user :
             u \in UEs /\ st.allocation_by_user[u] > 0
        /\ st.allocated_rbs >= 0

\* C2 witness: a release took a UE's last block (its entry is gone) while
\* another UE still owns several
C2_Witness ==
    /\ grid_call.op = "RELEASE_RB"
    /\ grid_call.ret = TRUE
    /\ \E u \in UEs : u \notin DOMAIN lte_grid.stats.allocation_by_user
    /\ \E v \in DOMAIN lte_grid.stats.allocation_by_user :
          lte_grid.stats.allocation_by_user[v] >= 2

\* C3: ALLOCATE_RB_GROUP(tti, freq_idx, ue) is atomic over the two slots: it
\* returns true only when both blocks end up owned by ue, and after a false
\* return the owners and the counters are what they were before the call.
C3_PairAtomic ==
    [][ grid_call'.op = "ALLOCATE_RB_GROUP" =>
          /\ grid_call'.ret = TRUE =>
               \A s \in 0 .. 1 :
                 /\ RbKey(grid_call'.tti, s, grid_call'.freq_idx) \in RbKeys
                 /\ Owner(lte_grid', RbKey(grid_call'.tti, s, grid_call'.freq_idx))
                      = grid_call'.UE_ID
          /\ grid_call'.ret = FALSE => lte_grid' = lte_grid
      ]_vars

\* C31: ALLOCATE_RB_GROUP(tti, freq_idx, ue) returns true and assigns both
\* slots to ue whenever both blocks at (tti, freq_idx) are free, for every
\* tti of the grid, those of the second and later frames included, and every
\* freq_idx below rb_per_slot.
C31_FreePairGranted ==
    [][ ( /\ grid_call'.op = "ALLOCATE_RB_GROUP"
          /\ lte_grid' # lte_grid \/ grid_call' # grid_call
          /\ grid_call'.tti \in 0 .. TotalTti - 1
          /\ grid_call'.freq_idx \in 0 .. RbPerSlot - 1
          /\ \A s \in 0 .. 1 :
                lte_grid.rb_map[RbKey(grid_call'.tti, s, grid_call'.freq_idx)].status
                    = "free" ) =>
          /\ grid_call'.ret = TRUE
          /\ \A s \in 0 .. 1 :
                Owner(lte_grid', RbKey(grid_call'.tti, s, grid_call'.freq_idx))
                    = grid_call'.UE_ID
      ]_vars

\* C32: RESET_GRID, called in any reachable state of the grid, completes and
\* leaves every block of every TTI free with no owner, current_tti = 0,
\* allocated_rbs = 0, allocation_by_user empty and allocation_by_tti[t] = 0
\* for every TTI.
C32_ResetGrid ==
    grid_call.op = "RESET_GRID" =>
        /\ grid_call.outcome = "returned"
        /\ \A k \in RbKeys : lte_grid.rb_map[k] = RES_BLCK
        /\ lte_grid.current_tti = 0
        /\ lte_grid.stats.allocated_rbs = 0
        /\ lte_grid.stats.allocation_by_user = EmptyDict
        /\ \A t \in 0 .. TotalTti - 1 : lte_grid.stats.allocation_by_tti[t] = 0

-----------------------------------------------------------------------------
(* The calls a user of one Buffer makes, as time passes (SpecBuffer) *)

\* packets are 1..MaxPktSize bytes and live 1..MaxTtl ms
MaxPktSize == 2
MaxTtl == 2
\* the clock stops here: a packet of the longest life is then at its TTL
MaxTime == MaxTtl
\* GET_PACKETS is asked for 0..MaxBytes bytes
MaxBytes == MaxPktSize
\* the callers make at most MaxCalls calls on the buffer
MaxCalls == 4

\* no grid is constructed when a Buffer is used on its own
NoGrid == [rb_map |-> EmptyDict, current_tti |-> 0, stats |-> EmptyDict]

InitBufferSpec ==
    /\ lte_grid = NoGrid
    /\ grid_call = InitGridCall
    /\ InitRest

Tick ==
    /\ clock < MaxTime
    /\ clock' = clock + 1
    /\ UNCHANGED <<calcVars, gridVars, bufVars, schedVars, calls>>

AddPacket ==
    \E u \in UEs, size \in 1 .. MaxPktSize, ttl \in 1 .. MaxTtl :
        LET packet == Packet(size, u, clock, ttl, FALSE)
            r == ADD_PACKET(buffer, packet, clock)
        IN  /\ calls < MaxCalls
            /\ calls' = calls + 1
            /\ buffer' = r.buf
            /\ buf_call' = [ op |-> "ADD_PACKET", ue_id |-> u, packet |-> packet,
                             max_bytes |-> 0, now |-> clock, ret |-> r.ret,
                             selected |-> <<>>, bytes |-> 0 ]
            /\ UNCHANGED <<calcVars, gridVars, schedVars, clock>>

GetPackets ==
    \E u \in UEs, max_bytes \in 0 .. MaxBytes :
        LET r == GET_PACKETS(buffer, u, max_bytes, clock) IN
        /\ calls < MaxCalls
        /\ calls' = calls + 1
        /\ buffer' = r.buf
        /\ buf_call' = [ op |-> "GET_PACKETS", ue_id |-> u, packet |-> NoPacket,
                         max_bytes |-> max_bytes, now |-> clock, ret |-> TRUE,
                         selected |-> r.selected, bytes |-> r.exact_bytes ]
        /\ UNCHANGED <<calcVars, gridVars, schedVars, clock>>

UpdUeBuffer ==
    \E u \in UEs :
        LET r == UPD_UE_BUFFER(buffer, u, clock) IN
        /\ calls < MaxCalls
        /\ calls' = calls + 1
        /\ buffer' = r.buf
        /\ buf_call' = [ op |-> "UPD_UE_BUFFER", ue_id |-> u, packet |-> NoPacket,
                         max_bytes |-> 0, now |-> clock, ret |-> TRUE,
                         selected |-> <<>>, bytes |-> r.ret ]
        /\ UNCHANGED <<calcVars, gridVars, schedVars, clock>>

DestroyUePackets ==
    \E u \in UEs :
        /\ calls < MaxCalls
        /\ calls' = calls + 1
        /\ buffer' = DESTROY_UE_PACKETS(buffer, u)
        /\ buf_call' = [ op |-> "DESTROY_UE_PACKETS", ue_id |-> u, packet |-> NoPacket,
                         max_bytes |-> 0, now |-> clock, ret |-> TRUE,
                         selected |-> <<>>, bytes |-> 0 ]
        /\ UNCHANGED <<calcVars, gridVars, schedVars, clock>>

NextBuffer == Tick \/ AddPacket \/ GetPackets \/ UpdUeBuffer \/ DestroyUePackets

SpecBuffer == InitBufferSpec /\ [][NextBuffer]_vars

-----------------------------------------------------------------------------
(* Claims about the Buffer, checked under SpecBuffer *)

Last(seq) == seq[Len(seq)]

\* C6: after every ADD_PACKET, GET_PACKETS or UPD_UE_BUFFER call on queue u
\* (TTL sweeps included) sizes[u] is the sum of the sizes of the packets in
\* queue u.
C6_SizesMatchQueue ==
    buf_call.op \in {"ADD_PACKET", "GET_PACKETS", "UPD_UE_BUFFER"} =>
        buffer.sizes[buf_call.ue_id] = SumSizes(buffer.queues[buf_call.ue_id])

\* C7: in every reachable state of a Buffer total_size is the sum of sizes[u]
\* over all UEs, and is at most global_max.
C7_TotalSizeIsSum ==
    /\ buffer.total_size = SumOver(buffer.sizes, UEs)
    /\ buffer.total_size <= buffer.global_max

\* C8: ADD_PACKET decides on the counters as the TTL sweep of the target queue
\* leaves them: the packet is appended iff sizes[ue] + size <= per_ue_max and
\* total_size + size <= global_max; a rejected packet has reason ue_limit when
\* the per-UE cap is exceeded (also when the global cap is exceeded too) and
\* global_limit otherwise. sizes[u] never exceeds per_ue_max.
C8_AdmissionDecision ==
    [][ /\ (calls' = calls + 1 /\ buf_call'.op = "ADD_PACKET") =>
             LET pkt == buf_call'.packet
                 ue  == pkt.ue_id
                 S   == AddSweep(buffer, ue, buf_call'.now)
                 fitsUe  == S.sizes[ue] + pkt.size <= S.per_ue_max
                 fitsAll == S.total_size + pkt.size <= S.global_max
             IN  /\ buf_call'.ret = (fitsUe /\ fitsAll)
                 /\ buf_call'.ret =>
                        buffer'.queues[ue] = Append(S.queues[ue], pkt)
                 /\ ~buf_call'.ret =>
                        /\ buffer'.queues[ue] = S.queues[ue]
                        /\ buffer'.dropped_info[ue] # <<>>
                        /\ Last(buffer'.dropped_info[ue]).reason
                              = IF ~fitsUe THEN "ue_limit" ELSE "global_limit"
        /\ \A u \in UEs : buffer'.sizes[u] <= buffer'.per_ue_max
      ]_vars

\* C8 witness: a packet that fits its UE's cap was rejected for the global cap
C8_Witness ==
    /\ buf_call.op = "ADD_PACKET"
    /\ buf_call.ret = FALSE
    /\ Last(buffer.dropped_info[buf_call.ue_id]).reason = "global_limit"
    /\ buffer.sizes[buf_call.ue_id] + buf_call.packet.size <= buffer.per_ue_max

\* C9: a rejected ADD_PACKET returns false, adds exactly one to dropped[ue] and
\* exactly one record to dropped_info[ue], and leaves the queues, sizes,
\* total_size and the ingress statistics as the TTL sweep left them.
C9_RejectOnlyCounted ==
    [][ (calls' = calls + 1 /\ buf_call'.op = "ADD_PACKET" /\ buf_call'.ret = FALSE) =>
          LET pkt == buf_call'.packet
              ue  == pkt.ue_id
              S   == AddSweep(buffer, ue, buf_call'.now)
          IN  /\ buffer'.dropped[ue] = buffer.dropped[ue] + 1
              /\ Len(buffer'.dropped_info[ue]) = Len(buffer.dropped_info[ue]) + 1
              /\ SubSeq(buffer'.dropped_info[ue], 1, Len(buffer.dropped_info[ue]))
                    = buffer.dropped_info[ue]
              /\ Last(buffer'.dropped_info[ue]).size = pkt.size
              /\ \A u \in UEs \ {ue} :
                    /\ buffer'.dropped[u] = buffer.dropped[u]
                    /\ buffer'.dropped_info[u] = buffer.dropped_info[u]
              /\ buffer'.queues = S.queues
              /\ buffer'.sizes = S.sizes
              /\ buffer'.total_size = S.total_size
              /\ buffer'.expired = S.expired
              /\ buffer'.ingress_stats = buffer.ingress_stats
      ]_vars

\* C9 witness: a packet was rejected by a call whose sweep had expired another
C9_Witness ==
    /\ buf_call.op = "ADD_PACKET"
    /\ buf_call.ret = FALSE
    /\ buffer.expired[buf_call.ue_id] > 0
    /\ buffer.queues[buf_call.ue_id] # <<>>
    /\ buffer.dropped[buf_call.ue_id] = 1

\* C10: in every GET_PACKETS call the sizes of the returned packets and
\* fragments add up to the returned bytes_extracted, bytes_extracted plus
\* sizes[ue] after the call is sizes[ue] before it, and what is returned and
\* what stays queued are together the bytes of the unexpired packets that were
\* queued: fragmentation invents, loses and doubles no byte.
C10_ByteConservation ==
    [][ (calls' = calls + 1 /\ buf_call'.op = "GET_PACKETS") =>
          LET ue == buf_call'.ue_id IN
          /\ SumSizes(buf_call'.selected) = buf_call'.bytes
          /\ buf_call'.bytes + buffer'.sizes[ue] = buffer.sizes[ue]
          /\ SumSizes(buf_call'.selected) + SumSizes(buffer'.queues[ue])
                = SumSizes(ValidPackets(buffer.queues[ue], buf_call'.now))
      ]_vars

\* C10 witness: a call returned a whole packet and then a fragment, and the
\* rest of the fragmented packet stayed queued
C10_Witness ==
    /\ buf_call.op = "GET_PACKETS"
    /\ Len(buf_call.selected) = 2
    /\ ~buf_call.selected[1].is_fragment
    /\ buf_call.selected[2].is_fragment
    /\ buffer.queues[buf_call.ue_id] # <<>>

\* C11: GET_PACKETS(ue, max_bytes, now) returns exactly min(max_bytes, bytes of
\* the non-expired packets queued for ue); what it returns is a prefix of the
\* non-expired queue, in order and whole, followed by at most one fragment,
\* which is cut from the next packet of the queue and is the last element; with
\* max_bytes = 0 nothing is returned and the non-expired packets stay as they are.
C11_ExactFifoDequeue ==
    [][ (calls' = calls + 1 /\ buf_call'.op = "GET_PACKETS") =>
          LET ue == buf_call'.ue_id
              valid == ValidPackets(buffer.queues[ue], buf_call'.now)
              selected == buf_call'.selected
              whole == { i \in DOMAIN selected : ~selected[i].is_fragment }
              n == Cardinality(whole)
          IN  /\ buf_call'.bytes = IF buf_call'.max_bytes <= SumSizes(valid)
                                  THEN buf_call'.max_bytes
                                  ELSE SumSizes(valid)
              /\ whole = 1 .. n
              /\ n <= Len(valid)
              /\ \A i \in 1 .. n : selected[i] = valid[i]
              /\ Len(selected) \in {n, n + 1}
              /\ Len(selected) = n + 1 =>
                    /\ n < Len(valid)
                    /\ selected[n + 1].size >= 1
                    /\ selected[n + 1].size < valid[n + 1].size
                    /\ selected[n + 1] =
                          [valid[n + 1] EXCEPT !.size = selected[n + 1].size,
                                               !.is_fragment = TRUE]
                    /\ Len(buffer'.queues[ue]) = Len(valid) - n
                    /\ Tail(buffer'.queues[ue]) = SubSeq(valid, n + 2, Len(valid))
              /\ Len(selected) = n =>
                    buffer'.queues[ue] = SubSeq(valid, n + 1, Len(valid))
              /\ buf_call'.max_bytes = 0 =>
                    /\ selected = <<>>
                    /\ buffer'.queues[ue] = valid
                    /\ buffer'.sizes = buffer.sizes
                    /\ buffer'.total_size = buffer.total_size
      ]_vars

\* C11 witness: a call whose budget is smaller than the non-expired bytes
\* queued returned the budget exactly, as a whole packet followed by a
\* closing fragment of a younger packet, whose remainder stayed queued
C11_Witness ==
    /\ buf_call.op = "GET_PACKETS"
    /\ buf_call.max_bytes = MaxBytes
    /\ buf_call.bytes = buf_call.max_bytes
    /\ Len(buf_call.selected) = 2
    /\ buf_call.selected[2].is_fragment
    /\ buf_call.selected[1].creation_time < buf_call.selected[2].creation_time
    /\ Len(buffer.queues[buf_call.ue_id]) = 1

\* C12: TTL safety. Whatever ADD_PACKET, GET_PACKETS, UPD_UE_BUFFER and
\* DESTROY_UE_PACKETS calls came before, at non-decreasing times, no packet or
\* fragment returned by GET_PACKETS at time now has creation_time + ttl_ms < now.
C12_NoExpiredReturned ==
    buf_call.op = "GET_PACKETS" =>
        \A i \in DOMAIN buf_call.selected :
            /\ buf_call.selected[i].creation_time + buf_call.selected[i].ttl_ms
                   >= buf_call.now
            /\ buf_call.selected[i].creation_time <= buf_call.now

\* C12 witness: a call swept an older, expired packet away (its bytes are still
\* counted in sizes) and returned a fragment of the packet behind it, which
\* was at the very end of its life
C12_Witness ==
    /\ buf_call.op = "GET_PACKETS"
    /\ Len(buf_call.selected) = 1
    /\ buf_call.selected[1].is_fragment
    /\ buf_call.selected[1].creation_time + buf_call.selected[1].ttl_ms
           = buf_call.now
    /\ buffer.sizes[buf_call.ue_id]
           > SumSizes(buffer.queues[buf_call.ue_id])

\* C13: UPD_UE_BUFFER(ue, now) is a TTL sweep with the predicate of ADD_PACKET
\* and GET_PACKETS: it removes exactly the packets with now - creation_time >
\* ttl_ms (a packet whose age equals ttl_ms stays), returns the number removed,
\* adds it to expired[ue], and leaves the other packets, in order, and the
\* other queues as they were.
C13_UpdIsTtlSweep ==
    [][ (calls' = calls + 1 /\ buf_call'.op = "UPD_UE_BUFFER") =>
          LET ue == buf_call'.ue_id
              kept == ValidPackets(buffer.queues[ue], buf_call'.now)
              removed == Len(buffer.queues[ue]) - Len(kept)
          IN  /\ buffer'.queues[ue] = kept
              /\ buf_call'.bytes = removed
              /\ buffer'.expired[ue] = buffer.expired[ue] + removed
              /\ \A u \in UEs \ {ue} : buffer'.queues[u] = buffer.queues[u]
      ]_vars

\* C14: ingress statistics. start_time[ue] is set by the first packet admitted
\* for ue, whatever the time of that arrival (time 0 included), and no later
\* call changes it; each admission adds the packet's size to total_bytes[ue],
\* and no other call changes total_bytes.
C14_IngressStats ==
    [][ calls' = calls + 1 =>
          \A u \in UEs :
              LET before == buffer.ingress_stats[u]
                  after == buffer'.ingress_stats[u]
                  admitted == /\ buf_call'.op = "ADD_PACKET"
                              /\ buf_call'.ret
                              /\ buf_call'.packet.ue_id = u
              IN  /\ after.start_time =
                         IF before.start_time = NoTime /\ admitted
                         THEN buf_call'.now
                         ELSE before.start_time
                  /\ after.total_bytes =
                         IF admitted
                         THEN before.total_bytes + buf_call'.packet.size
                         ELSE before.total_bytes
      ]_vars

\* C33: packet accounting. In every ADD_PACKET, GET_PACKETS and UPD_UE_BUFFER
\* call and for each UE, the packets that were queued plus the one admitted
\* are those still queued plus those dequeued whole plus those the call added
\* to expired[ue]: every packet a TTL sweep removes is counted in expired[ue]
\* exactly once, so that over any sequence of calls admitted = queued +
\* dequeued whole + expired[ue].
C33_PacketAccounting ==
    [][ ( /\ calls' = calls + 1
          /\ buf_call'.op \in {"ADD_PACKET", "GET_PACKETS", "UPD_UE_BUFFER"} ) =>
          \A ue \in UEs :
              LET admitted == IF /\ buf_call'.op = "ADD_PACKET"
                                 /\ buf_call'.ue_id = ue
                                 /\ buf_call'.ret = TRUE
                              THEN 1 ELSE 0
                  whole == IF buf_call'.op = "GET_PACKETS" /\ buf_call'.ue_id = ue
                           THEN Len(SelectSeq(buf_call'.selected,
                                              LAMBDA p : ~p.is_fragment))
                           ELSE 0
              IN  Len(buffer.queues[ue]) + admitted
                      = Len(buffer'.queues[ue]) + whole
                          + (buffer'.expired[ue] - buffer.expired[ue])
      ]_vars

-----------------------------------------------------------------------------
(* SCHEDULER.py: adaptive modulation and coding *)

\* AdaptiveModulationAndCoding.CQI_TO_MCS: cqi -> <<modulation order, code
\* rate in thousandths>>
CQI_TO_MCS ==
    << <<2, 152>>, <<2, 234>>, <<2, 377>>, <<2, 601>>, <<4, 369>>,
       <<4, 479>>, <<4, 601>>, <<6, 455>>, <<6, 554>>, <<6, 650>>,
       <<6, 754>>, <<6, 852>>, <<6, 926>>, <<6, 953>>, <<6, 978>> >>

\* "cqi in self.CQI_TO_MCS"; GET_BITS_PER_RB raises ValueError when it is not
ValidCqi(cqi) == cqi \in DOMAIN CQI_TO_MCS

\* GET_BITS_PER_RB with the modulation order left at that of QPSK
GET_BITS_PER_RB_rateOnly(cqi) ==
    LET code_rate == CQI_TO_MCS[cqi][2]
        symbols_per_rb == 12 * 7
    IN  (symbols_per_rb * 2 * code_rate) \div 1000

\* GET_BITS_PER_RB of a valid cqi: int(symbols_per_rb * modulation * code_rate)
GET_BITS_PER_RB(cqi) ==
    LET modulation == CQI_TO_MCS[cqi][1]
        code_rate == CQI_TO_MCS[cqi][2]
        symbols_per_rb == 12 * 7
    IN  (symbols_per_rb * modulation * code_rate) \div 1000

-----------------------------------------------------------------------------
(* Specification of the AMC table on its own: GET_BITS_PER_RB is called    *)
(* with one cqi after another, valid or not                                *)

\* the cqi values tried are 0 .. MaxCqi: the fifteen of the table, 0 and 16
MaxCqi == 16
AmcCqis == 0 .. MaxCqi

\* one call amc.GET_BITS_PER_RB(cqi): the table entry read and the value
\* returned, or the ValueError of a cqi that is not a key of the table
GetBitsPerRbCall(cqi) ==
    IF ValidCqi(cqi)
    THEN [ cqi |-> cqi, outcome |-> "returned",
           modulation |-> CQI_TO_MCS[cqi][1], code_rate |-> CQI_TO_MCS[cqi][2],
           bits |-> GET_BITS_PER_RB(cqi) ]
    ELSE [ cqi |-> cqi, outcome |-> "ValueError",
           modulation |-> 0, code_rate |-> 0, bits |-> 0 ]

NoAmcCall == [ cqi |-> 0, outcome |-> "none", modulation |-> 0, code_rate |-> 0,
               bits |-> 0 ]

InitAmcSpec ==
    /\ lte_grid = NoGrid
    /\ grid_call = InitGridCall
    /\ buffer = InitBuffer
    /\ buf_call = InitBufCall
    /\ clock = 0
    /\ calls = 0
    /\ NoScheduler
    /\ amc_call = [ last |-> NoAmcCall, previous |-> NoAmcCall ]
    /\ fairness_call = EmptyDict
    /\ NoLegacy

GetBitsPerRb ==
    \E cqi \in AmcCqis :
        /\ amc_call' = [ last |-> GetBitsPerRbCall(cqi), previous |-> amc_call.last ]
        /\ UNCHANGED <<gridVars, bufVars, schedVars, clock, calls, fairness_call,
                       rr_legacy, on_off>>

NextAmc == GetBitsPerRb

SpecAmc == InitAmcSpec /\ [][NextAmc]_vars

\* C27: AMC monotonicity. Of two cqi values of the table the larger never
\* gets fewer bits per RB, although modulation order and code rate do not
\* both grow from one entry to the next.
C27_AmcMonotone ==
    ( /\ amc_call.previous.outcome = "returned"
      /\ amc_call.last.outcome = "returned"
      /\ amc_call.previous.cqi <= amc_call.last.cqi ) =>
        amc_call.previous.bits <= amc_call.last.bits

\* C27 witness: two successive entries of the table where the modulation
\* order rises and the code rate falls (cqi 4 to 5, cqi 7 to 8)
C27_Witness ==
    /\ amc_call.previous.outcome = "returned"
    /\ amc_call.last.outcome = "returned"
    /\ amc_call.last.cqi = amc_call.previous.cqi + 1
    /\ amc_call.last.modulation > amc_call.previous.modulation
    /\ amc_call.last.code_rate < amc_call.previous.code_rate
    /\ amc_call.last.bits > amc_call.previous.bits

\* C28: the bits per RB that GET_BITS_PER_RB computes from the table are the
\* constants of scenarios S3 and S6: 546 for cqi 10 and 78 for cqi 1, so that
\* one RB at cqi 1 carries floor(78 / 8) = 9 bytes.
C28_ScenarioConstants ==
    amc_call.last.outcome = "returned" =>
        /\ amc_call.last.cqi = 10 => amc_call.last.bits = 546
        /\ amc_call.last.cqi = 1 =>
              /\ amc_call.last.bits = 78
              /\ amc_call.last.bits \div 8 = 9

-----------------------------------------------------------------------------
(* The RBG operations of the grid.  The schedulers call GET_RBG_SIZE,      *)
(* GET_RBG_INDICES, ALLOCATE_RBG and GENERATE_BITMAP on the grid and       *)
(* UPD_DL_THROUGHPUT on the UE, but no source file defines them; they are  *)
(* modelled from the specification (3 Data model, 4.1, 4.5.4).             *)

\* RBG size of the modelled cell
RbgSize == 2

GET_RBG_SIZE == RbgSize

Min(a, b) == IF a <= b THEN a ELSE b

\* RBG k covers the freq indices [k*S, min((k+1)*S, N_rb_per_slot))
GET_RBG_INDICES(rbg_idx) ==
    LET first == rbg_idx * GET_RBG_SIZE
        end == Min((rbg_idx + 1) * GET_RBG_SIZE, RbPerSlot)
    IN  [i \in 1 .. Max(end - first, 0) |-> first + i - 1]

SeqRange(seq) == { seq[i] : i \in DOMAIN seq }

\* the rb_map keys of RBG rbg_idx of a TTI: its freq indices in both slots
RbgKeys(tti, rbg_idx) ==
    { RbKey(tti, s, f) : s \in 0 .. 1, f \in SeqRange(GET_RBG_INDICES(rbg_idx)) }

\* allocate_rbg: atomic over all RBs in both slots of the RBG: [grid, ret]
ALLOCATE_RBG(G, tti, rbg_idx, UE_ID) ==
    LET keys == RbgKeys(tti, rbg_idx) IN
    IF /\ tti \in 0 .. TotalTti - 1
       /\ keys # {}
       /\ \A k \in keys : CHCK_RB(G.rb_map[k])
    THEN [ grid |-> [G EXCEPT
               !.rb_map = [k \in DOMAIN @ |->
                              IF k \in keys
                              THEN [status |-> "assigned", UE_ID |-> UE_ID]
                              ELSE @[k]],
               !.stats.allocated_rbs = @ + Cardinality(keys),
               !.stats.allocation_by_user =
                   DictPut(@, UE_ID, DictGet(@, UE_ID, 0) + Cardinality(keys)),
               !.stats.allocation_by_tti[tti] = @ + Cardinality(keys)],
           ret |-> TRUE ]
    ELSE [grid |-> G, ret |-> FALSE]

\* the number of whole RBGs only: a last, shorter RBG is left out
total_rbg_whole == RbPerSlot \div GET_RBG_SIZE

\* total_rbg = (rb_per_slot + rbg_size - 1) // rbg_size
total_rbg == (RbPerSlot + GET_RBG_SIZE - 1) \div GET_RBG_SIZE

\* generate_bitmap: which RBGs of the TTI are assigned to the UE
GENERATE_BITMAP(G, tti, UE_ID) ==
    [k \in 0 .. total_rbg - 1 |->
        \A key \in RbgKeys(tti, k) :
            G.rb_map[key].status = "assigned" /\ G.rb_map[key].UE_ID = UE_ID]

\* UE.UPD_DL_THROUGHPUT(bits, 1): current_dl_throughput = bytes_sent * 8
UPD_DL_THROUGHPUT(ue, bits) == [ue EXCEPT !.current_dl_throughput = bits]

\* RES_GRID_LTE.GET_FREE_RB_FOR_TTI: the free blocks of both slots of the
\* subframe frames[tti // 10].subframes[tti % 10], as the set of their keys
GET_FREE_RB_FOR_TTI(G, tti) ==
    IF tti >= TotalTti THEN {}
    ELSE { k \in { RbKey(tti, s, f) : s \in 0 .. 1, f \in 0 .. RbPerSlot - 1 } :
             CHCK_RB(G.rb_map[k]) }

-----------------------------------------------------------------------------
(* SCHEDULER.py: what the three schedule() methods share *)

\* ue.average_throughput is a float that starts at 0.0, is raised to 1e-6 by
\* calculate_pf_metric and is averaged with integer bit counts by 0.8 and
\* 0.2.  It is kept exactly, as the record [rn, tn, k] that stands for
\* (rn + tn * 1e-6) / 5^k, in lowest terms.
RECURSIVE Pow5(_)
Pow5(k) == IF k = 0 THEN 1 ELSE 5 * Pow5(k - 1)

\* UserEquipment.__init__: average_throughput = 0.0
ZeroAvg == [rn |-> 0, tn |-> 0, k |-> 0]

\* the value 1e-6 calculate_pf_metric assigns
FloorAvg == [rn |-> 0, tn |-> 1, k |-> 0]

RECURSIVE NormAvg(_)
NormAvg(a) ==
    IF a.k > 0 /\ a.rn % 5 = 0 /\ a.tn % 5 = 0
    THEN NormAvg([rn |-> a.rn \div 5, tn |-> a.tn \div 5, k |-> a.k - 1])
    ELSE a

\* (1 - 0.2) * average_throughput_past + 0.2 * current_dl_throughput
EmaUpdate(average_throughput_past, current_dl_throughput) ==
    NormAvg([ rn |-> 4 * average_throughput_past.rn
                       + current_dl_throughput * Pow5(average_throughput_past.k),
              tn |-> 4 * average_throughput_past.tn,
              k  |-> average_throughput_past.k + 1 ])

\* "average_throughput <= 0": the value is never negative
AvgNotPositive(a) == a.rn = 0 /\ a.tn = 0

\* the PF metric instant_throughput / average_throughput is kept as the pair;
\* no PF_metric attribute exists before the first calculate_pf_metric
NoMetric == [instant_throughput |-> 0, average_throughput |-> ZeroAvg]

\* m1 > m2 for two PF metrics: i1/a1 > i2/a2 iff i1*a2 > i2*a1 (a1, a2 > 0).
\* Every instant_throughput is a multiple of rb_per_slot * 2 * 1000, which
\* is divided out.  The two sides are compared first in their rn parts and
\* then in their tn parts: the rn parts are integers over 5^K, so when they
\* differ they differ by more than the 1e-6 parts can make up, as long as
\* bits_per_rb * 5^K < 10^6 (K is at most the number of TTIs scheduled).
MetricGreater(m1, m2) ==
    LET a1 == m1.average_throughput
        a2 == m2.average_throughput
        K  == Max(a1.k, a2.k)
        b1 == m1.instant_throughput \div (RbPerSlot * 2 * 1000)
        b2 == m2.instant_throughput \div (RbPerSlot * 2 * 1000)
        R12 == b1 * a2.rn * Pow5(K - a2.k)
        R21 == b2 * a1.rn * Pow5(K - a1.k)
        T12 == b1 * a2.tn * Pow5(K - a2.k)
        T21 == b2 * a1.tn * Pow5(K - a1.k)
    IN  R12 > R21 \/ (R12 = R21 /\ T12 > T21)

\* the UE attributes the schedulers read and write
NewUE == [ current_dl_throughput |-> 0, average_throughput |-> ZeroAvg,
           PF_metric |-> NoMetric ]

\* a buffer status that reports the room left for the UE instead of the
\* bytes it holds
BufferSize_room(B, ue_id) == B.per_ue_max - B.sizes[ue_id]

\* bs_buffer.GET_UE_STATUS(tti)['per_ue'].get(ue_id, {}).get('size', 0): the
\* entry of an empty queue says 0, that of any other queue says sizes[ue_id]
BufferSize(B, ue_id) == IF B.queues[ue_id] = <<>> THEN 0 ELSE B.sizes[ue_id]

\* the active filter: users of the list that have a buffer, a positive
\* buffer size and a CQI in 1..15, with bs_buffer_size attached
ActiveUsers(users, bufs) ==
    LET kept == SelectSeq(users, LAMBDA user :
                    /\ user.UE_ID \in DOMAIN bufs
                    /\ BufferSize(bufs[user.UE_ID], user.UE_ID) > 0
                    /\ 1 <= user.cqi /\ user.cqi <= 15)
    IN  [i \in DOMAIN kept |->
            [ UE_ID |-> kept[i].UE_ID, cqi |-> kept[i].cqi,
              bs_buffer_size |-> BufferSize(bufs[kept[i].UE_ID], kept[i].UE_ID) ]]

\* allocation = {user['UE_ID']: [] for user in active_users}
EmptyAllocation(active_users) ==
    [ue_id \in { active_users[i].UE_ID : i \in DOMAIN active_users } |-> <<>>]

\* remaining_buffer = {user['UE_ID']: user['bs_buffer_size'] * 8 ...}
InitRemaining(active_users) ==
    [ue_id \in { active_users[i].UE_ID : i \in DOMAIN active_users } |->
        LET i == CHOOSE j \in DOMAIN active_users : active_users[j].UE_ID = ue_id
        IN  active_users[i].bs_buffer_size * 8]

\* all(v <= 0 for v in remaining_buffer.values())
AllServed(remaining_buffer) ==
    \A ue_id \in DOMAIN remaining_buffer : remaining_buffer[ue_id] <= 0

\* the allocation step with the result of ALLOCATE_RBG ignored: the RBG is
\* recorded for the user whether or not the grid gave it
AllocateToUser_unchecked(L, tti, rbg_idx, user) ==
    LET ue_id == user.UE_ID
        a == ALLOCATE_RBG(L.grid, tti, rbg_idx, ue_id)
        rb_indices == GET_RBG_INDICES(rbg_idx)
        rbg_capacity == Len(rb_indices) * GET_BITS_PER_RB(user.cqi) * 2
    IN  [L EXCEPT !.grid = a.grid,
                  !.allocation[ue_id] = @ \o rb_indices,
                  !.last_allocated_ue_id = ue_id,
                  !.remaining_buffer[ue_id] = @ - Min(@, rbg_capacity)]

\* the allocation step that records only the first index of the RBG
AllocateToUser_firstIndex(L, tti, rbg_idx, user) ==
    LET ue_id == user.UE_ID
        a == ALLOCATE_RBG(L.grid, tti, rbg_idx, ue_id)
        rb_indices == GET_RBG_INDICES(rbg_idx)
        rbg_capacity == Len(rb_indices) * GET_BITS_PER_RB(user.cqi) * 2
    IN  IF a.ret
        THEN [L EXCEPT !.grid = a.grid,
                       !.allocation[ue_id] = Append(@, rb_indices[1]),
                       !.last_allocated_ue_id = ue_id,
                       !.remaining_buffer[ue_id] = @ - Min(@, rbg_capacity)]
        ELSE L

\* an allocation step that does not take the capacity of the RBG off the
\* bits the user still has to send
AllocateToUser_noDebit(L, tti, rbg_idx, user) ==
    LET ue_id == user.UE_ID
        a == ALLOCATE_RBG(L.grid, tti, rbg_idx, ue_id)
    IN  IF a.ret
        THEN [L EXCEPT !.grid = a.grid,
                       !.allocation[ue_id] = @ \o GET_RBG_INDICES(rbg_idx),
                       !.last_allocated_ue_id = ue_id]
        ELSE L

\* "if self.lte_grid.ALLOCATE_RBG(tti, rbg_idx, ue_id): ..." of the three
\* loops: on success the indices of the RBG are recorded for the user and its
\* remaining bits go down by the capacity of the RBG.  L is the state of the
\* loop: [grid, allocation, remaining_buffer, current_idx,
\* last_allocated_ue_id] (the last two are Round Robin's)
AllocateToUser(L, tti, rbg_idx, user) ==
    LET ue_id == user.UE_ID
        a == ALLOCATE_RBG(L.grid, tti, rbg_idx, ue_id)
    IN  IF a.ret
        THEN LET rb_indices == GET_RBG_INDICES(rbg_idx)
                 bits_per_rb == GET_BITS_PER_RB(user.cqi)
                 rbg_capacity == Len(rb_indices) * bits_per_rb * 2
             IN  [L EXCEPT !.grid = a.grid,
                           !.allocation[ue_id] = @ \o rb_indices,
                           !.last_allocated_ue_id = ue_id,
                           !.remaining_buffer[ue_id] = @ - Min(@, rbg_capacity)]
        ELSE L

\* the state the allocation loops start from
InitLoop(G, active_users, current_idx) ==
    [ grid |-> G,
      allocation |-> EmptyAllocation(active_users),
      remaining_buffer |-> InitRemaining(active_users),
      current_idx |-> current_idx,
      last_allocated_ue_id |-> NoUE ]

\* a schedule() preamble that leaves the throughput of the last TTI in place
ZeroThroughput_keep(ues, users) == ues

\* "for user in users: user['ue'].current_dl_throughput = 0"
ZeroThroughput(ues, users) ==
    [ue_id \in DOMAIN ues |->
        IF \E i \in DOMAIN users : users[i].UE_ID = ue_id
        THEN [ues[ue_id] EXCEPT !.current_dl_throughput = 0]
        ELSE ues[ue_id]]

\* the loop "for user in users" after the allocation, from user i on: every
\* user's buffer gives up to max_bytes bytes and the UE's throughput is set;
\* GET_BITS_PER_RB raises ValueError at the first user whose CQI is not in the
\* table, and the loop ends there.  D = [bufs, ues, raised]; with_ema is
\* true in ProportionalFairScheduler, which also averages the throughput
RECURSIVE DequeueLoop(_, _, _, _, _, _)
DequeueLoop(D, tti, users, allocation, i, with_ema) ==
    IF i > Len(users) THEN D
    ELSE LET user == users[i]
             ue_id == user.UE_ID
         IN  IF ue_id \notin DOMAIN D.bufs
             THEN DequeueLoop(D, tti, users, allocation, i + 1, with_ema)
             ELSE IF ~ValidCqi(user.cqi)
             THEN [D EXCEPT !.raised = TRUE]
             ELSE LET allocated_rb == Len(DictGet(allocation, ue_id, <<>>)) * 2
                      bits_per_rb == GET_BITS_PER_RB(user.cqi)
                      max_bytes == (allocated_rb * bits_per_rb) \div 8
                      g == GET_PACKETS(D.bufs[ue_id], ue_id, max_bytes, tti)
                      ue1 == UPD_DL_THROUGHPUT(D.ues[ue_id], g.exact_bytes * 8)
                      ue2 == IF with_ema
                             THEN [ue1 EXCEPT !.average_throughput =
                                      EmaUpdate(@, ue1.current_dl_throughput)]
                             ELSE ue1
                  IN  DequeueLoop([D EXCEPT !.bufs[ue_id] = g.buf,
                                            !.ues[ue_id] = ue2],
                                  tti, users, allocation, i + 1, with_ema)

\* sum of f over the UE ids in S
RECURSIVE SumIds(_, _)
SumIds(f, S) ==
    IF S = {} THEN 0
    ELSE LET x == CHOOSE y \in S : TRUE IN f[x] + SumIds(f, S \ {x})

\* AdaptiveModulationAndCoding.calculate_throughput: [statistics, ues]; the
\* float average_dl_throughput is kept as the pair it is the quotient of
calculate_throughput(allocation, users, ues) ==
    LET ids == { users[i].UE_ID : i \in DOMAIN users }
        cqi_of(ue_id) ==
            users[CHOOSE i \in DOMAIN users :
                      /\ users[i].UE_ID = ue_id
                      /\ \A j \in DOMAIN users : users[j].UE_ID = ue_id => j <= i].cqi
        rb_count == [ue_id \in ids |-> Len(DictGet(allocation, ue_id, <<>>)) * 2]
        max_bits == [ue_id \in ids |->
                        IF rb_count[ue_id] = 0 THEN 0
                        ELSE rb_count[ue_id] * GET_BITS_PER_RB(cqi_of(ue_id))]
        effective_bits == [ue_id \in ids |->
                        IF rb_count[ue_id] = 0 THEN 0
                        ELSE Min(ues[ue_id].current_dl_throughput, max_bits[ue_id])]
        total_effective_bits == SumIds(effective_bits, ids)
        active_users == { ue_id \in ids : effective_bits[ue_id] > 0 }
    IN  [ statistics |->
            [ total_allocated_rbs |-> SumIds(rb_count, ids),
              user_throughput |-> effective_bits,
              user_effective_throughput |-> effective_bits,
              user_max_throughput |-> max_bits,
              average_dl_throughput |->
                  [ bits |-> IF active_users = {} THEN 0 ELSE total_effective_bits,
                    users |-> Cardinality(active_users) ],
              total_effective_bits |-> total_effective_bits ],
          ues |-> [ue_id \in DOMAIN ues |->
                      IF ue_id \in ids /\ rb_count[ue_id] = 0
                      THEN UPD_DL_THROUGHPUT(ues[ue_id], 0)
                      ELSE ues[ue_id]] ]

\* what schedule() returns when the active list is empty
EmptyResult(S) ==
    [ sched |-> S, outcome |-> "returned", active |-> <<>>,
      allocation |-> EmptyDict, remaining_buffer |-> EmptyDict,
      statistics |-> EmptyDict, bitmap |-> EmptyDict ]

\* the end of schedule(): the dequeue loop, the bitmap and the statistics.
\* When the dequeue loop raises, schedule() returns nothing; the allocation
\* it had built is kept in the record all the same, and so is in both cases
\* the local remaining_buffer the allocation loop ended with.  S is the scheduler with
\* what it references: [grid, bufs, ues, last_served_ue_id]
FinishSchedule(S, tti, users, active_users, L, ues0, with_ema) ==
    LET D == DequeueLoop([bufs |-> S.bufs, ues |-> ues0, raised |-> FALSE],
                         tti, users, L.allocation, 1, with_ema)
        c == calculate_throughput(L.allocation, users, D.ues)
        S1 == [ grid |-> L.grid, bufs |-> D.bufs, ues |-> D.ues,
                last_served_ue_id |-> S.last_served_ue_id ]
    IN  IF D.raised
        THEN [ sched |-> S1, outcome |-> "raised",
               active |-> [i \in DOMAIN active_users |-> active_users[i].UE_ID],
               allocation |-> L.allocation,
               remaining_buffer |-> L.remaining_buffer,
               statistics |-> EmptyDict, bitmap |-> EmptyDict ]
        ELSE [ sched |-> [S1 EXCEPT !.ues = c.ues], outcome |-> "returned",
               active |-> [i \in DOMAIN active_users |-> active_users[i].UE_ID],
               allocation |-> L.allocation,
               remaining_buffer |-> L.remaining_buffer,
               statistics |-> c.statistics,
               bitmap |-> [ue_id \in DOMAIN L.allocation |->
                              GENERATE_BITMAP(L.grid, tti, ue_id)] ]

-----------------------------------------------------------------------------
(* RoundRobinScheduler *)

\* a rotation that starts every TTI at the head of the active list
StartIdx_head(active_users, last_served) == 0

\* where the rotation starts: after last_served_ue_id when that user is in
\* the active list, at 0 otherwise
StartIdx(active_users, last_served) ==
    IF last_served = NoUE THEN 0
    ELSE IF \E i \in DOMAIN active_users : active_users[i].UE_ID = last_served
         THEN LET found_idx ==
                      (CHOOSE i \in DOMAIN active_users :
                          /\ active_users[i].UE_ID = last_served
                          /\ \A j \in DOMAIN active_users :
                                active_users[j].UE_ID = last_served => i <= j) - 1
              IN  (found_idx + 1) % Len(active_users)
         ELSE 0

\* a search that always comes back to the head of the active list
SkipServed_head(active_users, remaining_buffer, current_idx, initial_idx) == 0

\* the while loop that looks for the next user with data
RECURSIVE SkipServed(_, _, _, _)
SkipServed(active_users, remaining_buffer, current_idx, initial_idx) ==
    IF remaining_buffer[active_users[current_idx + 1].UE_ID] <= 0
    THEN LET next_idx == (current_idx + 1) % Len(active_users)
         IN  IF next_idx = initial_idx THEN next_idx
             ELSE SkipServed(active_users, remaining_buffer, next_idx, initial_idx)
    ELSE current_idx

\* "for rbg_idx in range(total_rbg)" of RoundRobinScheduler.schedule
RECURSIVE RoundRobinLoop(_, _, _, _)
RoundRobinLoop(L, tti, active_users, rbg_idx) ==
    IF rbg_idx >= total_rbg \/ AllServed(L.remaining_buffer) THEN L
    ELSE LET current_idx == SkipServed(active_users, L.remaining_buffer,
                                       L.current_idx, L.current_idx)
             user == active_users[current_idx + 1]
             L1 == IF L.remaining_buffer[user.UE_ID] > 0
                   THEN AllocateToUser(L, tti, rbg_idx, user)
                   ELSE L
         IN  RoundRobinLoop(
                 [L1 EXCEPT !.current_idx = (current_idx + 1) % Len(active_users)],
                 tti, active_users, rbg_idx + 1)

\* RoundRobinScheduler.schedule
RoundRobinSchedule(S, tti, users) ==
    LET ues0 == ZeroThroughput(S.ues, users)
        active_users == ActiveUsers(users, S.bufs)
    IN  IF active_users = <<>>
        THEN EmptyResult([S EXCEPT !.ues = ues0])
        ELSE LET L == RoundRobinLoop(
                          InitLoop(S.grid, active_users,
                                   StartIdx(active_users, S.last_served_ue_id)),
                          tti, active_users, 0)
                 S1 == [S EXCEPT !.last_served_ue_id =
                           IF L.last_allocated_ue_id # NoUE
                           THEN L.last_allocated_ue_id ELSE @]
             IN  FinishSchedule(S1, tti, users, active_users, L, ues0, FALSE)

-----------------------------------------------------------------------------
(* BestCQIScheduler *)

\* a choice that takes the first user with data, whatever its CQI
BestCqiUser_first(users_with_data) == users_with_data[1]

\* users_with_data.sort(key=cqi, reverse=True)[0]: the sort is stable, so of
\* the users of highest CQI the first of the list is taken
BestCqiUser(users_with_data) ==
    users_with_data[CHOOSE i \in DOMAIN users_with_data :
        /\ \A j \in DOMAIN users_with_data :
               users_with_data[j].cqi <= users_with_data[i].cqi
        /\ \A j \in 1 .. i - 1 : users_with_data[j].cqi < users_with_data[i].cqi]

\* "for rbg_idx in range(total_rbg)" of BestCQIScheduler.schedule
RECURSIVE BestCqiLoop(_, _, _, _)
BestCqiLoop(L, tti, active_users, rbg_idx) ==
    LET users_with_data ==
            SelectSeq(active_users, LAMBDA u : L.remaining_buffer[u.UE_ID] > 0)
    IN  IF rbg_idx >= total_rbg \/ AllServed(L.remaining_buffer)
           \/ users_with_data = <<>>
        THEN L
        ELSE BestCqiLoop(AllocateToUser(L, tti, rbg_idx, BestCqiUser(users_with_data)),
                         tti, active_users, rbg_idx + 1)

\* BestCQIScheduler.schedule
BestCqiSchedule(S, tti, users) ==
    LET ues0 == ZeroThroughput(S.ues, users)
        active_users == ActiveUsers(users, S.bufs)
    IN  IF active_users = <<>>
        THEN EmptyResult([S EXCEPT !.ues = ues0])
        ELSE LET L == BestCqiLoop(InitLoop(S.grid, active_users, 0),
                                  tti, active_users, 0)
             IN  FinishSchedule(S, tti, users, active_users, L, ues0, FALSE)

-----------------------------------------------------------------------------
(* ProportionalFairScheduler *)

\* instant_throughput = rb_per_slot * bits_per_rb * 2 * 1000
InstantThroughput(cqi) == RbPerSlot * GET_BITS_PER_RB(cqi) * 2 * 1000

\* calculate_pf_metric, the UE side: an average that is not positive is set
\* to 1e-6, and the metric is stored on the UE
PfMetricUes(ues, active_users) ==
    [ue_id \in DOMAIN ues |->
        IF \E i \in DOMAIN active_users : active_users[i].UE_ID = ue_id
        THEN LET i == CHOOSE j \in DOMAIN active_users :
                          active_users[j].UE_ID = ue_id
                 avg == IF AvgNotPositive(ues[ue_id].average_throughput)
                        THEN FloorAvg
                        ELSE ues[ue_id].average_throughput
             IN  [ues[ue_id] EXCEPT
                     !.average_throughput = avg,
                     !.PF_metric =
                         [ instant_throughput |->
                               InstantThroughput(active_users[i].cqi),
                           average_throughput |-> avg ]]
        ELSE ues[ue_id]]

\* calculate_pf_metric, the list side: every user gets its 'PF_metric'
calculate_pf_metric(ues, active_users) ==
    [i \in DOMAIN active_users |->
        [ UE_ID |-> active_users[i].UE_ID, cqi |-> active_users[i].cqi,
          bs_buffer_size |-> active_users[i].bs_buffer_size,
          PF_metric |-> PfMetricUes(ues, active_users)[active_users[i].UE_ID].PF_metric ]]

\* a choice by instant throughput alone: the average is not looked at
BestPfUser_instant(users_with_data) ==
    users_with_data[CHOOSE i \in DOMAIN users_with_data :
        /\ \A j \in DOMAIN users_with_data :
               users_with_data[j].PF_metric.instant_throughput
                   <= users_with_data[i].PF_metric.instant_throughput
        /\ \A j \in 1 .. i - 1 :
               users_with_data[j].PF_metric.instant_throughput
                   < users_with_data[i].PF_metric.instant_throughput]

\* users_with_data.sort(key=PF_metric, reverse=True)[0]: the sort is stable,
\* so of the users of highest metric the first of the list is taken
BestPfUser(users_with_data) ==
    users_with_data[CHOOSE i \in DOMAIN users_with_data :
        /\ \A j \in DOMAIN users_with_data :
               ~MetricGreater(users_with_data[j].PF_metric,
                              users_with_data[i].PF_metric)
        /\ \A j \in 1 .. i - 1 :
               MetricGreater(users_with_data[i].PF_metric,
                             users_with_data[j].PF_metric)]

\* "for rbg_idx in range(total_rbg)" of ProportionalFairScheduler.schedule
RECURSIVE PfLoop(_, _, _, _)
PfLoop(L, tti, active_users, rbg_idx) ==
    LET users_with_data ==
            SelectSeq(active_users, LAMBDA u : L.remaining_buffer[u.UE_ID] > 0)
    IN  IF rbg_idx >= total_rbg \/ AllServed(L.remaining_buffer)
           \/ users_with_data = <<>>
        THEN L
        ELSE PfLoop(AllocateToUser(L, tti, rbg_idx, BestPfUser(users_with_data)),
                    tti, active_users, rbg_idx + 1)

\* ProportionalFairScheduler.schedule
PfSchedule(S, tti, users) ==
    LET ues0 == ZeroThroughput(S.ues, users)
        active_users0 == ActiveUsers(users, S.bufs)
    IN  IF active_users0 = <<>>
        THEN EmptyResult([S EXCEPT !.ues = ues0])
        ELSE LET active_users == calculate_pf_metric(ues0, active_users0)
                 ues1 == PfMetricUes(ues0, active_users0)
                 L == PfLoop(InitLoop(S.grid, active_users, 0),
                             tti, active_users, 0)
             IN  FinishSchedule(S, tti, users, active_users, L, ues1, TRUE)

-----------------------------------------------------------------------------
(* The specification of the scheduler: a base station with NumUE registered *)
(* UEs, the grid, and one scheduler constructed on them.  The caller puts   *)
(* packets into the UE buffers and calls schedule(tti, users) with the      *)
(* CQIs of the moment, as the tests of ENVIRONMENT.py do.                   *)

Policies == {"RoundRobin", "BestCQI", "ProportionalFair"}

\* Buffer.__init__ defaults, which REG_UE constructs the UE buffers with
DefaultGlobalMax == 1048576
DefaultPerUeMax == 262144
\* Packet.__init__ default ttl_ms
DefaultTtl == 1000

\* packet sizes in bytes: one that fits an RBG at the lowest CQI and one that
\* does not fit the whole TTI
SchedSizes == {5, 20}
\* CQIs the channel reports: one outside the table and the two lowest
SchedCqis == {0, 1, 2}

InitSchedCall ==
    [ op |-> "init", call |-> 0, tti |-> 0, users |-> <<>>, free_before |-> 0,
      outcome |-> "none", active |-> <<>>, allocation |-> EmptyDict,
      remaining_buffer |-> EmptyDict,
      statistics |-> EmptyDict, bitmap |-> EmptyDict ]

InitSchedSpec ==
    /\ lte_grid = InitGrid
    /\ grid_call = InitGridCall
    /\ buffer = InitBuffer
    /\ buf_call = InitBufCall
    /\ clock = 0
    /\ calls = 0
    /\ ue_buffers = [u \in UEs |-> NewBuffer(DefaultGlobalMax, DefaultPerUeMax)]
    /\ ue_state = [u \in UEs |-> NewUE]
    /\ last_served_ue_id = NoUE
    /\ policy \in Policies
    /\ sched_call = InitSchedCall
    /\ ue_traffic_models = [i \in 1 .. NumUE |-> i]
    /\ bs_call = EmptyDict
    /\ NoCalc

\* bs.ue_buffers[u].ADD_PACKET(Packet(size, ue_id, creation_time), current_time)
SchedAddPacket ==
    /\ calls < MaxCalls
    /\ calls' = calls + 1
    /\ \E u \in UEs, size \in SchedSizes :
         LET packet == Packet(size, u, clock, DefaultTtl, FALSE)
         IN  ue_buffers' = [ue_buffers EXCEPT ![u] = ADD_PACKET(@, packet, clock).buf]
    /\ UNCHANGED <<calcVars, gridVars, bufVars, clock, ue_state, last_served_ue_id,
                   policy, sched_call, ue_traffic_models, bs_call>>

\* scheduler.schedule(tti, users) of the scheduler that was constructed, for
\* one list of users
ScheduleUsers(users) ==
    LET S == [ grid |-> lte_grid, bufs |-> ue_buffers, ues |-> ue_state,
               last_served_ue_id |-> last_served_ue_id ]
    IN  /\ calls' = calls + 1
        /\ \E r \in { CASE policy = "RoundRobin" -> RoundRobinSchedule(S, clock, users)
                         [] policy = "BestCQI" -> BestCqiSchedule(S, clock, users)
                         [] policy = "ProportionalFair" -> PfSchedule(S, clock, users) } :
             /\ lte_grid' = r.sched.grid
             /\ ue_buffers' = r.sched.bufs
             /\ ue_state' = r.sched.ues
             /\ last_served_ue_id' = r.sched.last_served_ue_id
             /\ sched_call' =
                  [ op |-> "schedule", call |-> calls + 1, tti |-> clock,
                    users |-> users,
                    free_before |-> Cardinality(GET_FREE_RB_FOR_TTI(lte_grid, clock)),
                    outcome |-> r.outcome, active |-> r.active,
                    allocation |-> r.allocation,
                    remaining_buffer |-> r.remaining_buffer,
                    statistics |-> r.statistics,
                    bitmap |-> r.bitmap ]
        /\ UNCHANGED <<calcVars, grid_call, bufVars, clock, policy, ue_traffic_models, bs_call>>

\* schedule(tti, users) with the users listed in the order of their ids
Schedule ==
    /\ calls < MaxCalls
    /\ \E cqi \in [UEs -> SchedCqis] :
         ScheduleUsers([i \in 1 .. NumUE |-> [UE_ID |-> i, cqi |-> cqi[i]]])

\* the simulation moves on to the next TTI
NextTti ==
    /\ clock < MaxTime
    /\ clock' = clock + 1
    /\ UNCHANGED <<calcVars, gridVars, bufVars, schedVars, calls>>

NextSched == SchedAddPacket \/ Schedule \/ NextTti

SpecSched == InitSchedSpec /\ [][NextSched]_vars

-----------------------------------------------------------------------------
(* The same run with the users listed in any order (SpecOrder) *)

\* how many calls come before the last schedule() of a run
MaxOrderCalls == 3

\* the orders the caller may list the registered UEs in
UserOrders ==
    { o \in [1 .. NumUE -> UEs] : \A i, j \in 1 .. NumUE : o[i] = o[j] => i = j }

\* schedule(tti, users) with the users listed in any order
ScheduleAnyOrder ==
    /\ calls < MaxOrderCalls
    /\ \E cqi \in [UEs -> SchedCqis], order \in UserOrders :
         ScheduleUsers([i \in 1 .. NumUE |->
                          [UE_ID |-> order[i], cqi |-> cqi[order[i]]]])

NextOrder == SchedAddPacket \/ ScheduleAnyOrder \/ NextTti

SpecOrder == InitSchedSpec /\ [][NextOrder]_vars

\* C35: work conservation. For each policy, when schedule() runs on a TTI whose
\* RBs are all free, at the end of the allocation loop either every RBG of the
\* TTI has been allocated or every active UE has remaining_bits = 0: no RBG
\* stays free while an active UE still has unserved bits.
C35_WorkConserving ==
    ( /\ sched_call.op = "schedule"
      /\ sched_call.outcome = "returned"
      /\ sched_call.active # <<>>
      /\ sched_call.free_before = 2 * RbPerSlot ) =>
        \/ \A f \in 0 .. RbPerSlot - 1 :
               \E u \in DOMAIN sched_call.allocation :
                   f \in SeqRange(sched_call.allocation[u])
        \/ \A u \in DOMAIN sched_call.remaining_buffer :
               sched_call.remaining_buffer[u] = 0

\* C35 witness: two active UEs, every RB of the TTI was granted and one of
\* the UEs still has bits left
C35_Witness ==
    /\ sched_call.op = "schedule"
    /\ sched_call.outcome = "returned"
    /\ Len(sched_call.active) = NumUE
    /\ sched_call.free_before = 2 * RbPerSlot
    /\ \A f \in 0 .. RbPerSlot - 1 :
           \E u \in DOMAIN sched_call.allocation :
               f \in SeqRange(sched_call.allocation[u])
    /\ \E u \in DOMAIN sched_call.remaining_buffer :
           sched_call.remaining_buffer[u] > 0

-----------------------------------------------------------------------------
(* The same run with packets of a short life (SpecStale): a packet queued   *)
(* MaxTime - 1 ms before it expires can be stale when schedule() is called  *)

\* bs.ue_buffers[u].ADD_PACKET(Packet(size, ue_id, creation_time, ttl_ms), current_time)
AddShortLived ==
    /\ calls < MaxCalls
    /\ calls' = calls + 1
    /\ \E u \in UEs, size \in SchedSizes :
         LET packet == Packet(size, u, clock, MaxTime - 1, FALSE)
         IN  ue_buffers' = [ue_buffers EXCEPT ![u] = ADD_PACKET(@, packet, clock).buf]
    /\ UNCHANGED <<calcVars, gridVars, bufVars, clock, ue_state, last_served_ue_id,
                   policy, sched_call, ue_traffic_models, bs_call>>

NextStale == AddShortLived \/ Schedule \/ NextTti

SpecStale == InitSchedSpec /\ [][NextStale]_vars

-----------------------------------------------------------------------------
(* Claims about the scheduler, checked under SpecSched *)

\* the RBGs of which some freq index is in the list of freq indices
RbgsOf(freq_indices) ==
    { k \in 0 .. total_rbg - 1 :
        SeqRange(GET_RBG_INDICES(k)) \cap SeqRange(freq_indices) # {} }

\* C4: after schedule(tti, users) of any policy, every freq index of every RBG
\* of that TTI that appears in a UE's allocation is owned by that UE in both
\* slots; and no RBG of the grid is split between two UEs or assigned in one
\* slot only.
C4_RbgAtomic ==
    sched_call.op = "schedule" =>
        /\ \A ue_id \in DOMAIN sched_call.allocation :
             \A k \in RbgsOf(sched_call.allocation[ue_id]) :
               \A key \in RbgKeys(sched_call.tti, k) :
                  /\ lte_grid.rb_map[key].status = "assigned"
                  /\ Owner(lte_grid, key) = ue_id
        /\ \A tti \in 0 .. TotalTti - 1, k \in 0 .. total_rbg - 1 :
             \A key \in RbgKeys(tti, k) :
                lte_grid.rb_map[key] = lte_grid.rb_map[RbKey(tti, 0, k * RbgSize)]

\* a TTI that was scheduled before is scheduled again: the grid refuses an
\* RBG another UE holds, and the call still gives this UE the short last RBG
C4_Witness ==
    /\ sched_call.op = "schedule"
    /\ sched_call.outcome = "returned"
    /\ 0 < sched_call.free_before
    /\ sched_call.free_before < 2 * RbPerSlot
    /\ \E ue_id \in DOMAIN sched_call.allocation :
          /\ RbgsOf(sched_call.allocation[ue_id]) = {total_rbg - 1}
          /\ \E key \in RbgKeys(sched_call.tti, 0) :
                Owner(lte_grid, key) \notin {NoUE, ue_id}

\* number of RBs the allocation of a call stands for: 2 per freq index
AllocatedRbs(allocation) ==
    SumIds([ue_id \in DOMAIN allocation |-> 2 * Len(allocation[ue_id])],
           DOMAIN allocation)

\* C5: when schedule(t, users) is called on a TTI t none of whose blocks is
\* taken (t is scheduled for the first time and nothing but the scheduler
\* touches the grid), then afterwards the free blocks of t and twice the freq
\* indices of the allocation add up to 2 * rb_per_slot.
C5_GridConservation ==
    (sched_call.op = "schedule" /\ sched_call.free_before = 2 * RbPerSlot) =>
        Cardinality(GET_FREE_RB_FOR_TTI(lte_grid, sched_call.tti))
            + AllocatedRbs(sched_call.allocation) = 2 * RbPerSlot

\* a first scheduling of a TTI in which two UEs get blocks
C5_Witness ==
    /\ sched_call.op = "schedule"
    /\ sched_call.outcome = "returned"
    /\ sched_call.free_before = 2 * RbPerSlot
    /\ Cardinality({ ue_id \in DOMAIN sched_call.allocation :
                       sched_call.allocation[ue_id] # <<>> }) = 2
    /\ AllocatedRbs(sched_call.allocation) = 2 * RbPerSlot

\* C16: only active UEs are served. In every schedule(tti, users) call of every
\* policy, a UE of the list whose BS buffer holds nothing (size 0) or whose CQI
\* is outside 1..15 gets no RBG in the allocation, is given no RB of that TTI in
\* the grid by the call, and keeps its queue and its byte count as they were.
C16_OnlyActiveServed ==
    [][ (sched_call'.op = "schedule" /\ sched_call'.call = calls + 1) =>
          \A i \in DOMAIN sched_call'.users :
              LET user == sched_call'.users[i]
                  u == user.UE_ID
                  tti == sched_call'.tti
                  inactive == \/ ue_buffers[u].queues[u] = <<>>
                              \/ ue_buffers[u].sizes[u] = 0
                              \/ ~(1 <= user.cqi /\ user.cqi <= 15)
              IN  inactive =>
                    /\ DictGet(sched_call'.allocation, u, <<>>) = <<>>
                    /\ u \notin DOMAIN sched_call'.bitmap
                    /\ \A s \in 0 .. 1, f \in 0 .. RbPerSlot - 1 :
                          Owner(lte_grid', RbKey(tti, s, f)) = u =>
                              Owner(lte_grid, RbKey(tti, s, f)) = u
                    /\ ue_buffers'[u].queues = ue_buffers[u].queues
                    /\ ue_buffers'[u].sizes = ue_buffers[u].sizes
      ]_vars

\* C16 witness: a call that returned served UE 2 while UE 1, whose CQI was
\* valid, had an empty buffer and got nothing
C16_Witness ==
    /\ sched_call.op = "schedule"
    /\ sched_call.outcome = "returned"
    /\ sched_call.users[1].UE_ID = 1
    /\ ValidCqi(sched_call.users[1].cqi)
    /\ ue_buffers[1].queues[1] = <<>>
    /\ ue_buffers[1].ingress_stats[1].total_bytes = 0
    /\ sched_call.active = <<2>>
    /\ Len(sched_call.allocation[2]) > 0
    /\ \A s \in 0 .. 1, f \in 0 .. RbPerSlot - 1 :
          Owner(lte_grid, RbKey(sched_call.tti, s, f)) # 1

\* C17: an invalid CQI is not fatal. When the list holds a UE whose CQI is
\* outside 1..15 together with at least one active UE, schedule() of every
\* policy returns (it does not raise), and the UE with the invalid CQI has no
\* RBG in the allocation and a throughput of zero.
C17_InvalidCqiNotFatal ==
    ( /\ sched_call.op = "schedule"
      /\ sched_call.active # <<>>
      /\ \E i \in DOMAIN sched_call.users : ~ValidCqi(sched_call.users[i].cqi) ) =>
        /\ sched_call.outcome = "returned"
        /\ \A i \in DOMAIN sched_call.users :
              ~ValidCqi(sched_call.users[i].cqi) =>
                  /\ DictGet(sched_call.allocation,
                             sched_call.users[i].UE_ID, <<>>) = <<>>
                  /\ ue_state[sched_call.users[i].UE_ID].current_dl_throughput = 0

\* C18: an empty active set is a no-op. When no UE of the list is active,
\* schedule() of every policy returns an empty allocation, empty statistics and
\* empty bitmaps, assigns no RB, dequeues nothing and leaves last_served_ue_id
\* (Round Robin) as it was; the one change of state is that every UE's
\* current_dl_throughput is zero afterwards.
C18_EmptyActiveNoOp ==
    [][ ( /\ sched_call'.op = "schedule"
          /\ sched_call'.call = calls + 1
          /\ \A i \in DOMAIN sched_call'.users :
                \/ ue_buffers[sched_call'.users[i].UE_ID]
                       .queues[sched_call'.users[i].UE_ID] = <<>>
                \/ ue_buffers[sched_call'.users[i].UE_ID]
                       .sizes[sched_call'.users[i].UE_ID] = 0
                \/ ~(1 <= sched_call'.users[i].cqi /\ sched_call'.users[i].cqi <= 15) ) =>
          /\ sched_call'.outcome = "returned"
          /\ sched_call'.allocation = EmptyDict
          /\ sched_call'.statistics = EmptyDict
          /\ sched_call'.bitmap = EmptyDict
          /\ lte_grid' = lte_grid
          /\ ue_buffers' = ue_buffers
          /\ last_served_ue_id' = last_served_ue_id
          /\ ue_state' = [u \in DOMAIN ue_state |->
                             [ue_state[u] EXCEPT !.current_dl_throughput = 0]]
      ]_vars

\* C18 witness: after a TTI in which UE 1 was served and had a throughput, a
\* call found no active UE although a buffer held data (the CQIs were
\* invalid): the throughput is zero again and the rotation stays where it was
C18_Witness ==
    /\ sched_call.op = "schedule"
    /\ sched_call.call > 1
    /\ sched_call.active = <<>>
    /\ sched_call.allocation = EmptyDict
    /\ \E u \in UEs : ue_buffers[u].queues[u] # <<>>
    /\ last_served_ue_id = 1
    /\ AssignedKeys(lte_grid) # {}
    /\ \A u \in UEs : ue_state[u].current_dl_throughput = 0

\* the freq indices a schedule() call recorded, over all UEs
AllocatedIndices(allocation) ==
    UNION { SeqRange(allocation[u]) : u \in DOMAIN allocation }

\* C19: the Round Robin cursor. With a non-empty active list, the first UE
\* tried in a TTI is the one right after last_served_ue_id in the active list
\* of that TTI (the head of the list when last_served_ue_id is none or not in
\* the list), so on a TTI that was free it is the UE that gets RBG 0; and after
\* the call last_served_ue_id is the UE that got the allocated RBG of highest
\* index, or what it was when the call allocated no RBG.
C19_RoundRobinCursor ==
    [][ ( /\ policy = "RoundRobin"
          /\ sched_call'.op = "schedule"
          /\ sched_call'.call = calls + 1
          /\ sched_call'.active # <<>> ) =>
          LET active == sched_call'.active
              allocation == sched_call'.allocation
              at == { i \in DOMAIN active : active[i] = last_served_ue_id }
              first == IF at = {} THEN active[1]
                       ELSE LET i == CHOOSE j \in at : TRUE
                            IN  active[(i % Len(active)) + 1]
              indices == AllocatedIndices(allocation)
          IN  /\ sched_call'.free_before = 2 * RbPerSlot =>
                    0 \in SeqRange(allocation[first])
              /\ indices = {} => last_served_ue_id' = last_served_ue_id
              /\ indices # {} =>
                    /\ last_served_ue_id' \in DOMAIN allocation
                    /\ \A f \in indices :
                          \E g \in SeqRange(allocation[last_served_ue_id']) : f <= g
      ]_vars

\* C19 witness: Round Robin had served UE 1 last; with both UEs active on a
\* free TTI the rotation started at UE 2, which got RBG 0, and UE 1 got the
\* last RBG and is the last served again
C19_Witness ==
    /\ policy = "RoundRobin"
    /\ sched_call.op = "schedule"
    /\ sched_call.call > 1
    /\ sched_call.active = <<1, 2>>
    /\ sched_call.free_before = 2 * RbPerSlot
    /\ 0 \in SeqRange(sched_call.allocation[2])
    /\ RbPerSlot - 1 \in SeqRange(sched_call.allocation[1])
    /\ last_served_ue_id = 1

\* C20: Round Robin rotation. With a stable active set of N UEs that keep data
\* in their buffers, in N consecutive TTIs in each of which an RBG is allocated
\* every UE is the starting UE at least once. For the two UEs of the model
\* (where, as in the 3 MHz cell, the number of RBGs is even): of two calls on
\* consecutive free TTIs with both UEs active and served in both, the second
\* starts with the UE the first did not start with, i.e. RBG 0 goes to the
\* other UE.
C20_RoundRobinRotation ==
    [][ ( /\ policy = "RoundRobin"
          /\ NumUE = 2
          /\ sched_call.op = "schedule"
          /\ sched_call'.op = "schedule"
          /\ sched_call'.call = calls + 1
          /\ sched_call'.tti = sched_call.tti + 1
          /\ sched_call.outcome = "returned"
          /\ sched_call'.outcome = "returned"
          /\ sched_call.active = <<1, 2>>
          /\ sched_call'.active = <<1, 2>>
          /\ sched_call.free_before = 2 * RbPerSlot
          /\ sched_call'.free_before = 2 * RbPerSlot
          /\ AllocatedIndices(sched_call.allocation) # {}
          /\ AllocatedIndices(sched_call'.allocation) # {}
          /\ \A u \in UEs : /\ sched_call.allocation[u] # <<>>
                             /\ sched_call'.allocation[u] # <<>> ) =>
          \A u \in UEs :
              0 \in SeqRange(sched_call.allocation[u]) =>
                  0 \notin SeqRange(sched_call'.allocation[u])
      ]_vars

\* C22: PF averaging happens in every TTI for every UE. After every
\* ProportionalFairScheduler.schedule call that returns, each UE's
\* average_throughput is 0.8 * its previous average + 0.2 * its
\* current_dl_throughput of the TTI (the previous average being the floor 1e-6
\* where calculate_pf_metric raised it), also for UEs outside the active set
\* and in TTIs whose active set is empty.
C22_PfAveragingEveryTti ==
    [][ ( /\ policy = "ProportionalFair"
          /\ sched_call'.op = "schedule"
          /\ sched_call'.call = calls + 1
          /\ sched_call'.outcome = "returned" ) =>
          \A i \in DOMAIN sched_call'.users :
              LET u == sched_call'.users[i].UE_ID
                  past == ue_state[u].average_throughput
                  current == ue_state'[u].current_dl_throughput
              IN  \/ ue_state'[u].average_throughput = EmaUpdate(past, current)
                  \/ /\ AvgNotPositive(past)
                     /\ ue_state'[u].average_throughput = EmaUpdate(FloorAvg, current)
      ]_vars

\* C23: PF floor. After any sequence of TTIs, the PF metric of every active UE
\* of a ProportionalFairScheduler.schedule call is finite (its divisor is
\* positive) and the average throughput it was divided by is not below the
\* floor 1e-6: (rn + tn * 1e-6) / 5^k >= 1e-6.
C23_PfFloor ==
    (policy = "ProportionalFair" /\ sched_call.op = "schedule") =>
        \A i \in DOMAIN sched_call.active :
            LET a == ue_state[sched_call.active[i]].PF_metric.average_throughput
            IN  /\ ~AvgNotPositive(a)
                /\ a.rn * 1000000 + a.tn >= Pow5(a.k)

\* the capacity in bits of the freq indices of a list, at a CQI: two RBs per
\* index
CapacityOf(freq_indices, cqi) == Len(freq_indices) * GET_BITS_PER_RB(cqi) * 2

\* C24: no over-allocation. In every policy the bits a UE still has to send
\* never go below zero, and a UE is granted an RBG only while it has bits left:
\* for each UE the capacity of the RBGs granted to it in the TTI, less the
\* capacity of the last RBG granted to it, is strictly less than 8 * its buffer
\* size at the start of the TTI, and what is left after the grants is that
\* buffer size less the capacity granted, or zero.
C24_NoOverAllocation ==
    [][ (sched_call'.op = "schedule" /\ sched_call'.call = calls + 1) =>
          \A i \in DOMAIN sched_call'.users :
              LET user == sched_call'.users[i]
                  u == user.UE_ID
                  granted == DictGet(sched_call'.allocation, u, <<>>)
                  start_bits == 8 * ue_buffers[u].sizes[u]
                  last_rbg == granted[Len(granted)] \div RbgSize
                  last_granted == SelectSeq(granted,
                                      LAMBDA f : f \div RbgSize = last_rbg)
              IN  /\ u \in DOMAIN sched_call'.remaining_buffer =>
                        /\ sched_call'.remaining_buffer[u] >= 0
                        /\ sched_call'.remaining_buffer[u] =
                               Max(0, start_bits - CapacityOf(granted, user.cqi))
                  /\ granted # <<>> =>
                        CapacityOf(granted, user.cqi)
                            - CapacityOf(last_granted, user.cqi) < start_bits
      ]_vars

\* C24 witness: a UE that held more bits than the first RBG carries was
\* granted both RBGs of the TTI, and the second left it with nothing to send
C24_Witness ==
    /\ sched_call.op = "schedule"
    /\ \E u \in DOMAIN sched_call.allocation :
          /\ Len(sched_call.allocation[u]) = RbPerSlot
          /\ sched_call.remaining_buffer[u] = 0
          /\ ue_buffers[u].queues[u] = <<>>

\* C25: Best-CQI serves the best channel first. A UE is granted an RBG only
\* when every active UE of strictly higher CQI has no bits left to send, i.e.
\* has already been granted, in RBGs of lower index, a capacity of at least
\* 8 * its buffer size; so of two UEs of different CQI whose buffers exceed the
\* capacity of the TTI, the one of higher CQI gets every RBG and the other none.
C25_BestChannelFirst ==
    [][ ( /\ policy = "BestCQI"
          /\ sched_call'.op = "schedule"
          /\ sched_call'.call = calls + 1 ) =>
          LET users == sched_call'.users
              allocation == sched_call'.allocation
          IN  \A i, j \in DOMAIN users :
                  ( /\ users[i].UE_ID \in DOMAIN allocation
                    /\ users[j].UE_ID \in DOMAIN allocation
                    /\ users[j].cqi > users[i].cqi ) =>
                      \A f \in SeqRange(allocation[users[i].UE_ID]) :
                          CapacityOf(SelectSeq(allocation[users[j].UE_ID],
                                               LAMBDA g : g < f),
                                     users[j].cqi)
                              >= 8 * ue_buffers[users[j].UE_ID].sizes[users[j].UE_ID]
      ]_vars

\* C25 witness: both UEs were active, UE 2 had the higher CQI and more to
\* send than the TTI carries: it got every RBG and UE 1, with data queued,
\* got none
C25_Witness ==
    /\ policy = "BestCQI"
    /\ sched_call.op = "schedule"
    /\ sched_call.outcome = "returned"
    /\ sched_call.users[1].cqi < sched_call.users[2].cqi
    /\ sched_call.active = <<sched_call.users[1].UE_ID, sched_call.users[2].UE_ID>>
    /\ sched_call.allocation[sched_call.users[1].UE_ID] = <<>>
    /\ Len(sched_call.allocation[sched_call.users[2].UE_ID]) = RbPerSlot
    /\ sched_call.remaining_buffer[sched_call.users[2].UE_ID] > 0

\* C26: when Best-CQI gives every RB pair of the TTI to one UE whose buffer
\* holds more than they carry, the aggregate effective throughput of the TTI,
\* i.e. the bits actually dequeued, equals the full capacity of the allocated
\* RBs, 2 * (number of RBs) * bits_per_rb(cqi).
C26_FullBufferThroughput ==
    ( /\ policy = "BestCQI"
      /\ sched_call.op = "schedule"
      /\ sched_call.outcome = "returned" ) =>
        \A i \in DOMAIN sched_call.users :
            LET u == sched_call.users[i].UE_ID
            IN  ( /\ u \in DOMAIN sched_call.allocation
                  /\ Len(sched_call.allocation[u]) = RbPerSlot
                  /\ sched_call.remaining_buffer[u] > 0 ) =>
                    sched_call.statistics.total_effective_bits
                        = CapacityOf(sched_call.allocation[u], sched_call.users[i].cqi)

\* C36: round-robin fairness within a TTI. When every active UE has more
\* buffered bits than the whole TTI can carry at its CQI and the RBs of the
\* TTI are all free, the numbers of RBGs granted to any two active UEs in that
\* TTI differ by at most one.
C36_RoundRobinEven ==
    [][ ( /\ policy = "RoundRobin"
          /\ sched_call'.op = "schedule"
          /\ sched_call'.call = calls + 1
          /\ sched_call'.outcome = "returned"
          /\ sched_call'.free_before = 2 * RbPerSlot
          /\ \A i \in DOMAIN sched_call'.users :
                LET user == sched_call'.users[i]
                IN  user.UE_ID \in DOMAIN sched_call'.allocation =>
                        8 * ue_buffers[user.UE_ID].sizes[user.UE_ID]
                            > 2 * RbPerSlot * GET_BITS_PER_RB(user.cqi) ) =>
          \A u, v \in DOMAIN sched_call'.allocation :
              Cardinality(RbgsOf(sched_call'.allocation[u]))
                  <= Cardinality(RbgsOf(sched_call'.allocation[v])) + 1
      ]_vars

\* C36 witness: two active UEs, each granted an RBG and each left with bits,
\* whose bits at the start (what is left plus what the grants carry) were
\* more than the whole TTI carries
C36_Witness ==
    /\ policy = "RoundRobin"
    /\ sched_call.op = "schedule"
    /\ sched_call.outcome = "returned"
    /\ sched_call.free_before = 2 * RbPerSlot
    /\ Len(sched_call.active) = NumUE
    /\ \A i \in DOMAIN sched_call.users :
          LET u == sched_call.users[i].UE_ID
              cqi == sched_call.users[i].cqi
          IN  /\ u \in DOMAIN sched_call.allocation
              /\ sched_call.allocation[u] # <<>>
              /\ sched_call.remaining_buffer[u] > 0
              /\ sched_call.remaining_buffer[u]
                     + CapacityOf(sched_call.allocation[u], cqi)
                   > 2 * RbPerSlot * GET_BITS_PER_RB(cqi)

-----------------------------------------------------------------------------
(* Claims about grants and stale packets, checked under SpecStale *)

\* C34: no wasted grant. In every TTI and for every policy a UE that is
\* granted at least one RBG has at least one byte dequeued in that TTI, also
\* when packets of its queue have passed their TTL since the last sweep.
C34_NoWastedGrant ==
    ( /\ sched_call.op = "schedule"
      /\ sched_call.outcome = "returned" ) =>
        \A u \in DOMAIN sched_call.allocation :
            sched_call.allocation[u] # <<>> =>
                ue_state[u].current_dl_throughput > 0

-----------------------------------------------------------------------------
(* A run of the PF scheduler with two UEs of different CQI whose buffers    *)
(* always hold more than a TTI carries (SpecPf): in every TTI each of them  *)
(* gets a new packet and schedule() is called                               *)

\* the two UEs that contend
PfContenders == 1 .. 2
\* the number of TTIs of the run: the averages are compared exactly by
\* MetricGreater as long as bits_per_rb * 5^K < 10^6
PfHorizon ==
    CHOOSE K \in 0 .. TotalTti :
        /\ GET_BITS_PER_RB(2) * Pow5(K) < 1000000
        /\ GET_BITS_PER_RB(2) * Pow5(K + 1) >= 1000000
\* packet sizes in bytes, each more than a whole TTI carries at CQI 2
FullSizes ==
    { (2 * RbPerSlot * GET_BITS_PER_RB(2)) \div 8 + d : d \in 1 .. 2 }

\* sched_call.users holds the users list of the run, sched_call.waited the
\* number of TTIs in a row each UE has had no RBG
InitPfSpec ==
    /\ lte_grid = InitGrid
    /\ grid_call = InitGridCall
    /\ buffer = InitBuffer
    /\ buf_call = InitBufCall
    /\ clock = 0
    /\ calls = 0
    /\ ue_buffers = [u \in UEs |-> NewBuffer(DefaultGlobalMax, DefaultPerUeMax)]
    /\ ue_state = [u \in UEs |-> NewUE]
    /\ last_served_ue_id = NoUE
    /\ policy = "ProportionalFair"
    /\ \E cqi \in [PfContenders -> 1 .. 2] :
         /\ cqi[1] # cqi[2]
         /\ sched_call =
              [ op |-> "init", call |-> 0, tti |-> 0,
                users |-> [i \in PfContenders |-> [UE_ID |-> i, cqi |-> cqi[i]]],
                free_before |-> 0, outcome |-> "none", active |-> <<>>,
                allocation |-> EmptyDict, remaining_buffer |-> EmptyDict,
                statistics |-> EmptyDict, bitmap |-> EmptyDict,
                waited |-> [u \in PfContenders |-> 0] ]
    /\ ue_traffic_models = [i \in 1 .. NumUE |-> i]
    /\ bs_call = EmptyDict
    /\ NoCalc

\* one TTI of the simulation loop: a packet for each UE, schedule(tti, users),
\* and on to the next TTI
FullBufferTti ==
    /\ clock < PfHorizon
    /\ clock' = clock + 1
    /\ calls' = calls + 1
    /\ \E size \in [PfContenders -> FullSizes] :
        \E bufs \in { [u \in DOMAIN ue_buffers |->
                         IF u \in PfContenders
                         THEN ADD_PACKET(ue_buffers[u],
                                         Packet(size[u], u, clock, DefaultTtl, FALSE),
                                         clock).buf
                         ELSE ue_buffers[u]] } :
          \E r \in { PfSchedule([ grid |-> lte_grid, bufs |-> bufs, ues |-> ue_state,
                                  last_served_ue_id |-> last_served_ue_id ],
                                clock, sched_call.users) } :
             /\ lte_grid' = r.sched.grid
             /\ ue_buffers' = r.sched.bufs
             /\ ue_state' = r.sched.ues
             /\ last_served_ue_id' = r.sched.last_served_ue_id
             /\ sched_call' =
                  [ op |-> "schedule", call |-> calls + 1, tti |-> clock,
                    users |-> sched_call.users,
                    free_before |-> Cardinality(GET_FREE_RB_FOR_TTI(lte_grid, clock)),
                    outcome |-> r.outcome, active |-> r.active,
                    allocation |-> r.allocation,
                    remaining_buffer |-> r.remaining_buffer,
                    statistics |-> r.statistics,
                    bitmap |-> r.bitmap,
                    waited |-> [u \in PfContenders |->
                                  IF u \in DOMAIN r.allocation /\ r.allocation[u] # <<>>
                                  THEN 0 ELSE sched_call.waited[u] + 1] ]
    /\ UNCHANGED <<calcVars, grid_call, bufVars, policy, ue_traffic_models, bs_call>>

NextPf == FullBufferTti

SpecPf == InitPfSpec /\ [][NextPf]_vars

\* C37: PF does not starve. With two UEs of different CQI that always have
\* data, every UE is granted an RBG again within a bounded number of TTIs
\* over the whole run: no UE goes without an RBG for as many TTIs in a row as
\* there are UEs, so the UE of lower CQI wins a TTI too.
C37_PfNoStarvation ==
    sched_call.op = "schedule" =>
        /\ sched_call.outcome = "returned"
        /\ \A u \in PfContenders : sched_call.waited[u] < Len(sched_call.users)

\* C37 witness: late in the run the UE of lower CQI is granted RBGs in a TTI
\* in which the UE of higher CQI, with data queued, gets none
C37_Witness ==
    /\ sched_call.op = "schedule"
    /\ clock = PfHorizon
    /\ \E i, j \in PfContenders :
          /\ sched_call.users[i].cqi < sched_call.users[j].cqi
          /\ sched_call.allocation[i] # <<>>
          /\ sched_call.waited[i] = 0
          /\ sched_call.waited[j] = 1
          /\ ue_buffers[j].queues[j] # <<>>

-----------------------------------------------------------------------------
(* Claims about the order of the users list, checked under SpecOrder *)

\* C21: Best-CQI and PF selection does not depend on the order of the users
\* list: the UE chosen for an RBG is, among the active UEs that still have
\* bits to send, the one of highest CQI (Best-CQI) or highest PF metric (PF),
\* and among those tied on that key the one of lowest UE id.  Stated for RBG 0
\* of a TTI that was free, where every active UE still has bits to send.
C21_SelectionByKeyThenId ==
    ( /\ policy \in {"BestCQI", "ProportionalFair"}
      /\ sched_call.op = "schedule"
      /\ sched_call.active # <<>>
      /\ sched_call.free_before = 2 * RbPerSlot ) =>
        LET users == sched_call.users
            ids == SeqRange(sched_call.active)
            cqi_of(u) == users[CHOOSE i \in DOMAIN users : users[i].UE_ID = u].cqi
            better(u, v) ==
                IF policy = "BestCQI" THEN cqi_of(u) > cqi_of(v)
                ELSE MetricGreater(ue_state[u].PF_metric, ue_state[v].PF_metric)
            best == CHOOSE u \in ids :
                        \A v \in ids \ {u} :
                            better(u, v) \/ (~better(v, u) /\ u < v)
        IN  0 \in SeqRange(sched_call.allocation[best])

-----------------------------------------------------------------------------
(* BS_MODULE.py: BaseStation, registration and traffic generation *)

\* BaseStation.REG_UE: a new Buffer for the UE, and its traffic model under
\* its key (a key that is already there keeps its place in the dict)
REG_UE(bufs, models, ue_id) ==
    [ bufs |-> DictPut(bufs, ue_id, NewBuffer(DefaultGlobalMax, DefaultPerUeMax)),
      models |-> IF \E i \in DOMAIN models : models[i] = ue_id
                 THEN models ELSE Append(models, ue_id) ]

\* GEN_TRFFC: "targets = [ue_id] if ue_id else self.ue_traffic_models.keys()"
Targets(models, ue_id) == IF ue_id # NoUE THEN <<ue_id>> ELSE models

\* GEN_TRFFC: the Packet list built from what model.generate returned; a raw
\* packet without creation_time (NoTime here) is stamped with current_time
TrafficPackets(raw_data, target_ue_id, current_time, ttl_ms) ==
    [ i \in DOMAIN raw_data |->
        Packet(raw_data[i].size, target_ue_id,
               IF raw_data[i].creation_time = NoTime THEN current_time
               ELSE raw_data[i].creation_time,
               ttl_ms, FALSE) ]

\* GEN_TRFFC: "for packet in packets: buffer.ADD_PACKET(packet, current_time)"
RECURSIVE AddPackets(_, _, _)
AddPackets(B, packets, current_time) ==
    IF packets = <<>> THEN B
    ELSE AddPackets(ADD_PACKET(B, Head(packets), current_time).buf,
                    Tail(packets), current_time)

\* BaseStation.GEN_TRFFC: [bufs, outcome]. raw_data[u] is what the traffic
\* model of u returns from generate() at this call. The loop over the targets
\* only rebinds buffer and packets; the ADD_PACKET loop comes after it and
\* works on what the last visited target left bound.
GEN_TRFFC(bufs, models, raw_data, current_time, ue_id, ttl_ms) ==
    LET targets == Targets(models, ue_id)
        visited == SelectSeq(targets,
                             LAMBDA t : \E i \in DOMAIN models : models[i] = t)
    IN  IF models = <<>> THEN [bufs |-> bufs, outcome |-> "ValueError"]
        ELSE IF visited = <<>>
        THEN [bufs |-> bufs, outcome |-> "UnboundLocalError"]
        ELSE LET target_ue_id == visited[Len(visited)]
                 packets == TrafficPackets(raw_data[target_ue_id], target_ue_id,
                                           current_time, ttl_ms)
             IN  [ bufs |-> [bufs EXCEPT ![target_ue_id] =
                                 AddPackets(@, packets, current_time)],
                   outcome |-> "returned" ]

-----------------------------------------------------------------------------
(* The calls made on a base station (SpecTraffic) *)

\* how many GEN_TRFFC calls a run makes
MaxTrafficCalls == 2
\* ttl_ms the callers pass: one that runs out within the run, and the default
TrafficTtls == {1, DefaultTtl}
\* what a traffic model may return from one generate() call at time now
RawData(now) ==
    LET small == [size |-> 5, creation_time |-> NoTime]
        large == [size |-> 20, creation_time |-> now]
    IN  { <<>>, <<small>>, <<large>>, <<small, large>> }

InitTrafficSpec ==
    /\ lte_grid = NoGrid
    /\ grid_call = InitGridCall
    /\ buffer = InitBuffer
    /\ buf_call = InitBufCall
    /\ clock = 0
    /\ calls = 0
    /\ ue_buffers = EmptyDict
    /\ ue_state = EmptyDict
    /\ last_served_ue_id = NoUE
    /\ policy = "none"
    /\ sched_call = EmptyDict
    /\ ue_traffic_models = <<>>
    /\ bs_call = [ op |-> "init" ]
    /\ NoCalc

\* bs.REG_UE(ue) for a UE that is not registered yet
RegUe ==
    \E u \in UEs :
        /\ u \notin DOMAIN ue_buffers
        /\ \E r \in { REG_UE(ue_buffers, ue_traffic_models, u) } :
             /\ ue_buffers' = r.bufs
             /\ ue_traffic_models' = r.models
        /\ UNCHANGED <<calcVars, gridVars, bufVars, clock, calls, ue_state,
                       last_served_ue_id, policy, sched_call, bs_call>>

\* bs.GEN_TRFFC(current_time, update_interval, ue_id, ttl_ms)
GenTrffc ==
    /\ calls < MaxTrafficCalls
    /\ calls' = calls + 1
    /\ \E raw_data \in [UEs -> RawData(clock)], ue_id \in {NoUE} \cup UEs,
          ttl_ms \in TrafficTtls :
         \E r \in { GEN_TRFFC(ue_buffers, ue_traffic_models, raw_data, clock,
                              ue_id, ttl_ms) } :
           /\ ue_buffers' = r.bufs
           /\ bs_call' = [ op |-> "GEN_TRFFC", current_time |-> clock,
                           ue_id |-> ue_id, ttl_ms |-> ttl_ms,
                           raw_data |-> raw_data, outcome |-> r.outcome ]
    /\ UNCHANGED <<calcVars, gridVars, bufVars, clock, ue_state, last_served_ue_id,
                   policy, sched_call, ue_traffic_models>>

NextTraffic == RegUe \/ GenTrffc \/ Tick

SpecTraffic == InitTrafficSpec /\ [][NextTraffic]_vars

-----------------------------------------------------------------------------
(* Claims about the base station, checked under SpecTraffic *)

\* C15: GEN_TRFFC(now, dt) without ue_id routes the traffic of every
\* registered UE: whatever the number of registered UEs, each packet generated
\* for UE u goes, with ue_id = u and the given ttl_ms, through ADD_PACKET into
\* the buffer of u, in the order generated, and into no other buffer or queue.
C15_TrafficRouted ==
    [][ (calls' = calls + 1 /\ bs_call'.op = "GEN_TRFFC"
           /\ bs_call'.ue_id = NoUE /\ ue_traffic_models # <<>>) =>
          /\ bs_call'.outcome = "returned"
          /\ \A u \in DOMAIN ue_buffers :
                ue_buffers'[u] =
                    AddPackets(ue_buffers[u],
                               TrafficPackets(bs_call'.raw_data[u], u,
                                              bs_call'.current_time,
                                              bs_call'.ttl_ms),
                               bs_call'.current_time)
      ]_vars

-----------------------------------------------------------------------------
(* Specification of the draining of one packet: a fresh Buffer holds a     *)
(* single packet that does not expire, and GET_PACKETS is called on its    *)
(* UE again and again with a positive budget, while time passes            *)

\* largest size of the packet, largest budget of a call, number of calls
MaxDrainSize == 5
MaxBudget == 3
MaxDrainCalls == 6

\* Buffer() with its default limits, after ADD_PACKET of the packet at time 0;
\* buf_call.returned adds up the bytes the GET_PACKETS calls have returned
\* and buf_call.budgets collects the budgets they were given
InitDrainSpec ==
    /\ lte_grid = NoGrid
    /\ grid_call = InitGridCall
    /\ clock = 0
    /\ calls = 0
    /\ NoScheduler
    /\ NoCalc
    /\ \E u \in UEs, size \in 1 .. MaxDrainSize :
         LET packet == Packet(size, u, 0, DefaultTtl, FALSE)
             r == ADD_PACKET(NewBuffer(DefaultGlobalMax, DefaultPerUeMax), packet, 0)
         IN  /\ buffer = r.buf
             /\ buf_call = [ op |-> "ADD_PACKET", ue_id |-> u, packet |-> packet,
                             max_bytes |-> 0, now |-> 0, ret |-> r.ret,
                             selected |-> <<>>, bytes |-> 0, returned |-> 0,
                             budgets |-> {} ]

\* GET_PACKETS(ue_id, max_bytes, bits_per_rb, current_time) on the UE of the packet
DrainPackets ==
    \E max_bytes \in 1 .. MaxBudget :
        LET r == GET_PACKETS(buffer, buf_call.ue_id, max_bytes, clock) IN
        /\ calls < MaxDrainCalls
        /\ calls' = calls + 1
        /\ buffer' = r.buf
        /\ buf_call' = [ op |-> "GET_PACKETS", ue_id |-> buf_call.ue_id,
                         packet |-> buf_call.packet,
                         max_bytes |-> max_bytes, now |-> clock, ret |-> TRUE,
                         selected |-> r.selected, bytes |-> r.exact_bytes,
                         returned |-> buf_call.returned + SumSizes(r.selected),
                         budgets |-> buf_call.budgets \cup {max_bytes} ]
        /\ UNCHANGED <<calcVars, gridVars, schedVars, clock>>

NextDrain == DrainPackets \/ Tick

SpecDrain == InitDrainSpec /\ [][NextDrain]_vars

\* C30: repeated dequeue drains a packet exactly. With a single packet of
\* size S that does not expire, a GET_PACKETS call of budget b > 0 returns one
\* fragment of b bytes while more than b bytes are left (so S - b are left
\* after the first call) and the remainder once it fits; the queue then is
\* empty, sizes[ue] is 0 and the sizes of all pieces returned add up to S.
C30_DrainExact ==
    buf_call.op = "GET_PACKETS" =>
        LET ue == buf_call.ue_id
            S == buf_call.packet.size
            b == buf_call.max_bytes
            left_before == S - (buf_call.returned - SumSizes(buf_call.selected))
            queue == buffer.queues[ue]
        IN  /\ left_before > b =>
                  /\ Len(buf_call.selected) = 1
                  /\ buf_call.selected[1].is_fragment
                  /\ buf_call.selected[1].size = b
                  /\ Len(queue) = 1
                  /\ queue[1].size = left_before - b
            /\ (left_before > 0 /\ left_before <= b) =>
                  /\ Len(buf_call.selected) = 1
                  /\ buf_call.selected[1].size = left_before
                  /\ queue = <<>>
            /\ left_before = 0 => buf_call.selected = <<>> /\ queue = <<>>
            /\ buf_call.bytes = SumSizes(buf_call.selected)
            /\ buffer.sizes[ue] = S - buf_call.returned
            /\ queue = <<>> =>
                  /\ buf_call.returned = S
                  /\ buffer.sizes[ue] = 0
                  /\ buffer.total_size = 0

\* C30 witness: every call had the same budget b and the packet was larger
\* than 2 * b, so at least two fragments of b bytes were cut before the call
\* that returned the remainder and left the queue empty
C30_Witness ==
    /\ buf_call.op = "GET_PACKETS"
    /\ buf_call.budgets = {buf_call.max_bytes}
    /\ buf_call.packet.size > 2 * buf_call.max_bytes
    /\ buf_call.returned = buf_call.packet.size
    /\ Len(buf_call.selected) = 1
    /\ ~buf_call.selected[1].is_fragment
    /\ buffer.queues[buf_call.ue_id] = <<>>
    /\ buffer.sizes[buf_call.ue_id] = 0
    /\ clock > 0

-----------------------------------------------------------------------------
(* ENVIRONMENT.py: Jain's fairness index of test_scheduler_with_metrics      *)

\* users_throughput has the three keys 1, 2, 3
FairnessUEs == 3
\* the per-UE throughputs tried are 0 .. MaxThroughput
MaxThroughput == 4

\* np.sum(throughputs), np.sum(throughputs ** 2)
SumThroughputs(throughputs) == SumOver(throughputs, DOMAIN throughputs)
SumSquares(throughputs) ==
    SumOver([i \in DOMAIN throughputs |-> throughputs[i] * throughputs[i]],
            DOMAIN throughputs)

\* (np.sum(x) ** 2) / (len(x) * np.sum(x ** 2)) on numpy floats, kept as the
\* fraction num / den; a zero divided by zero is numpy's nan (a
\* RuntimeWarning, no exception)
JainIndex(throughputs) ==
    LET num == SumThroughputs(throughputs) * SumThroughputs(throughputs)
        den == Len(throughputs) * SumSquares(throughputs)
    IN  IF den = 0
        THEN [ outcome |-> "nan", num |-> 0, den |-> 0 ]
        ELSE [ outcome |-> "value", num |-> num, den |-> den ]

InitFairnessSpec ==
    /\ lte_grid = NoGrid
    /\ grid_call = InitGridCall
    /\ buffer = InitBuffer
    /\ buf_call = InitBufCall
    /\ clock = 0
    /\ calls = 0
    /\ NoScheduler
    /\ amc_call = EmptyDict
    /\ NoLegacy
    /\ fairness_call = [ op |-> "init", throughputs |-> <<>>,
                         fairness_index |-> [ outcome |-> "none", num |-> 0, den |-> 0 ] ]

\* the index of one simulation, for any average throughputs of the UEs
ComputeFairness ==
    \E throughputs \in [1 .. FairnessUEs -> 0 .. MaxThroughput] :
        /\ fairness_call' = [ op |-> "fairness_index", throughputs |-> throughputs,
                              fairness_index |-> JainIndex(throughputs) ]
        /\ UNCHANGED <<gridVars, bufVars, schedVars, clock, calls, amc_call,
                       rr_legacy, on_off>>

NextFairness == ComputeFairness

SpecFairness == InitFairnessSpec /\ [][NextFairness]_vars

\* C29: Jain's fairness index lies in (0, 1] whenever some UE has non-zero
\* throughput, is 1 exactly when all UEs have the same throughput, and is 1,
\* computed without error, when every UE has zero throughput.
C29_JainIndex ==
    fairness_call.op = "fairness_index" =>
        LET x == fairness_call.throughputs
            J == fairness_call.fairness_index
        IN  /\ J.outcome = "value"
            /\ 0 < J.num
            /\ J.num <= J.den
            /\ J.num = J.den <=> \A i, j \in DOMAIN x : x[i] = x[j]

-----------------------------------------------------------------------------
(* src/SCHEDULER.py on src/LTE_GRID_ver_alpha.py: the first version of the  *)
(* scheduler, a round robin that hands single RBs of a TTI to the users     *)
(* registered with add_user.  RES_BLCK of that grid has the same fields     *)
(* and the same ASSIGN_RB / CHCK_RB as the one of RES_GRID.py.              *)

\* the user ids add_user and remove_user are called with: 1 .. MaxLegacyUser
MaxLegacyUser == 3
\* num_rb of the first grid (BANDWIDTH_TO_RB[bandwidth]; a narrow cell)
LegacyNumRb == 3
\* how many calls are made on one scheduler
MaxLegacyCalls == 5

\* Subframe.GET_ALL_RES_BLCK: the blocks of slot 0, then those of slot 1,
\* each slot in the order of freq_idx
GET_ALL_RES_BLCK ==
    [ i \in 1 .. 2 * LegacyNumRb |->
        [ slot |-> (i - 1) \div LegacyNumRb, freq_idx |-> (i - 1) % LegacyNumRb ] ]

\* _init_rb_map of the first grid: rb_map[(tti, rb.freq_idx)] = rb for every
\* block of the subframe in turn, so the block written last under a key stays
rb_map_alpha ==
    [ freq_idx \in 0 .. LegacyNumRb - 1 |->
        LET written == { i \in DOMAIN GET_ALL_RES_BLCK :
                             GET_ALL_RES_BLCK[i].freq_idx = freq_idx }
            last == CHOOSE i \in written : \A j \in written : j <= i
        IN  GET_ALL_RES_BLCK[last].slot ]

\* RES_GRID_LTE.__init__ of the first grid: the blocks <<tti, slot, freq_idx>>
\* of every subframe, and the stats
RES_GRID_LTE_alpha ==
    [ blocks |-> [ b \in (0 .. TotalTti - 1) \X (0 .. 1) \X (0 .. LegacyNumRb - 1) |->
                     RES_BLCK ],
      stats |-> [ allocated_rbs |-> 0, allocation_by_user |-> EmptyDict,
                  allocation_by_tti |-> [ t \in 0 .. TotalTti - 1 |-> 0 ] ] ]

\* ALLOCATE_RB of the first grid: [grid, ret]
ALLOCATE_RB_alpha(G, tti, freq_idx, UE_ID) ==
    IF tti \in 0 .. TotalTti - 1 /\ freq_idx \in DOMAIN rb_map_alpha
    THEN LET b == <<tti, rb_map_alpha[freq_idx], freq_idx>>
             a == ASSIGN_RB(G.blocks[b], UE_ID)
         IN  IF CHCK_RB(G.blocks[b]) /\ a.ret
             THEN [ grid |->
                      [ blocks |-> [G.blocks EXCEPT ![b] = a.rb],
                        stats |->
                          [ allocated_rbs |-> G.stats.allocated_rbs + 1,
                            allocation_by_tti |->
                                [G.stats.allocation_by_tti EXCEPT ![tti] = @ + 1],
                            allocation_by_user |->
                                DictPut(G.stats.allocation_by_user, UE_ID,
                                        DictGet(G.stats.allocation_by_user, UE_ID, 0) + 1) ] ],
                    ret |-> TRUE ]
             ELSE [ grid |-> G, ret |-> FALSE ]
    ELSE [ grid |-> G, ret |-> FALSE ]

\* GET_FREE_RB_FOR_TTI of the first grid: the free blocks of the subframe,
\* slot 0 first (tti >= 0)
GET_FREE_RB_FOR_TTI_alpha(G, tti) ==
    IF tti >= TotalTti
    THEN <<>>
    ELSE SelectSeq(GET_ALL_RES_BLCK,
                   LAMBDA rb : CHCK_RB(G.blocks[<<tti, rb.slot, rb.freq_idx>>]))

\* free_rbs.sort(key=lambda rb: rb.freq_idx): a stable sort, the blocks of
\* equal freq_idx keep their order (called with freq_idx = 0)
RECURSIVE SortByFreqIdx(_, _)
SortByFreqIdx(free_rbs, freq_idx) ==
    IF freq_idx >= LegacyNumRb
    THEN <<>>
    ELSE SelectSeq(free_rbs, LAMBDA rb : rb.freq_idx = freq_idx)
             \o SortByFreqIdx(free_rbs, freq_idx + 1)

\* RoundRobinScheduler.__init__
NewRoundRobin ==
    [ lte_grid |-> RES_GRID_LTE_alpha, active_users |-> <<>>, current_user_idx |-> 0 ]

\* add_user
add_user(S, user_id) ==
    IF user_id \notin SeqRange(S.active_users)
    THEN [S EXCEPT !.active_users = Append(@, user_id)]
    ELSE S

\* remove_user without the reset of the cursor
remove_user_noReset(S, user_id) ==
    [S EXCEPT !.active_users = SelectSeq(@, LAMBDA u : u # user_id)]

\* remove_user (a user id is in the list at most once)
remove_user(S, user_id) ==
    IF user_id \in SeqRange(S.active_users)
    THEN LET active_users == SelectSeq(S.active_users, LAMBDA u : u # user_id)
         IN  [S EXCEPT !.active_users = active_users,
                       !.current_user_idx =
                           IF @ >= Len(active_users) /\ Len(active_users) > 0
                           THEN 0 ELSE @]
    ELSE S

\* schedule, the loop over the sorted free blocks: [S, outcome, allocated_count];
\* active_users[current_user_idx] raises IndexError outside the list
RECURSIVE ScheduleLoop(_, _, _, _)
ScheduleLoop(S, tti, free_rbs, allocated_count) ==
    IF free_rbs = <<>> \/ S.active_users = <<>>
    THEN [ S |-> S, outcome |-> "returned", allocated_count |-> allocated_count ]
    ELSE IF S.current_user_idx >= Len(S.active_users)
    THEN [ S |-> S, outcome |-> "IndexError", allocated_count |-> allocated_count ]
    ELSE LET user_id == S.active_users[S.current_user_idx + 1]
             a == ALLOCATE_RB_alpha(S.lte_grid, tti, Head(free_rbs).freq_idx, user_id)
         IN  ScheduleLoop(
                 [S EXCEPT !.lte_grid = a.grid,
                           !.current_user_idx = (@ + 1) % Len(S.active_users)],
                 tti, Tail(free_rbs),
                 IF a.ret THEN allocated_count + 1 ELSE allocated_count)

\* RoundRobinScheduler.schedule of src/SCHEDULER.py: [S, outcome, allocated_count]
schedule_alpha(S, tti) ==
    LET free_rbs == GET_FREE_RB_FOR_TTI_alpha(S.lte_grid, tti)
    IN  IF S.active_users = <<>> \/ free_rbs = <<>>
        THEN [ S |-> S, outcome |-> "returned", allocated_count |-> 0 ]
        ELSE ScheduleLoop(S, tti, SortByFreqIdx(free_rbs, 0), 0)

(* The calls made on one legacy scheduler (SpecLegacy) *)

\* the TTIs schedule is called for: the first, the last and one past the grid
LegacyTtis == { 0, TotalTti - 1, TotalTti }

InitLegacySpec ==
    /\ lte_grid = NoGrid
    /\ grid_call = InitGridCall
    /\ buffer = InitBuffer
    /\ buf_call = InitBufCall
    /\ clock = 0
    /\ calls = 0
    /\ NoScheduler
    /\ amc_call = EmptyDict
    /\ fairness_call = EmptyDict
    /\ on_off = EmptyDict
    /\ rr_legacy = [ scheduler |-> NewRoundRobin,
                     call |-> [ op |-> "init", user_id |-> NoUE, tti |-> 0,
                                previous_idx |-> 0, free_rbs |-> 0,
                                outcome |-> "none", allocated_count |-> 0 ] ]

AddUser ==
    \E user_id \in 1 .. MaxLegacyUser :
        /\ calls < MaxLegacyCalls
        /\ calls' = calls + 1
        /\ rr_legacy' = [ scheduler |-> add_user(rr_legacy.scheduler, user_id),
                          call |-> [ op |-> "add_user", user_id |-> user_id, tti |-> 0,
                                     previous_idx |-> rr_legacy.scheduler.current_user_idx,
                                     free_rbs |-> 0,
                                     outcome |-> "returned", allocated_count |-> 0 ] ]
        /\ UNCHANGED <<gridVars, bufVars, schedVars, clock, amc_call, fairness_call, on_off>>

RemoveUser ==
    \E user_id \in 1 .. MaxLegacyUser :
        /\ calls < MaxLegacyCalls
        /\ calls' = calls + 1
        /\ rr_legacy' = [ scheduler |-> remove_user(rr_legacy.scheduler, user_id),
                          call |-> [ op |-> "remove_user", user_id |-> user_id, tti |-> 0,
                                     previous_idx |-> rr_legacy.scheduler.current_user_idx,
                                     free_rbs |-> 0,
                                     outcome |-> "returned", allocated_count |-> 0 ] ]
        /\ UNCHANGED <<gridVars, bufVars, schedVars, clock, amc_call, fairness_call, on_off>>

LegacySchedule ==
    \E tti \in LegacyTtis :
        \E r \in { schedule_alpha(rr_legacy.scheduler, tti) } :
            /\ calls < MaxLegacyCalls
            /\ calls' = calls + 1
            /\ rr_legacy' =
                 [ scheduler |-> r.S,
                   call |-> [ op |-> "schedule", user_id |-> NoUE, tti |-> tti,
                              previous_idx |-> rr_legacy.scheduler.current_user_idx,
                              free_rbs |->
                                  Len(GET_FREE_RB_FOR_TTI_alpha(rr_legacy.scheduler.lte_grid, tti)),
                              outcome |-> r.outcome,
                              allocated_count |-> r.allocated_count ] ]
            /\ UNCHANGED <<gridVars, bufVars, schedVars, clock, amc_call, fairness_call,
                           on_off>>

NextLegacy == AddUser \/ RemoveUser \/ LegacySchedule

SpecLegacy == InitLegacySpec /\ [][NextLegacy]_vars

(* Claims about the legacy scheduler, checked under SpecLegacy *)

\* C38: after any sequence of add_user, remove_user and schedule calls either
\* active_users is empty or 0 <= current_user_idx < len(active_users), and
\* no schedule call has indexed outside the list.
C38_CursorInRange ==
    LET S == rr_legacy.scheduler
    IN  /\ S.active_users = <<>>
           \/ (0 <= S.current_user_idx /\ S.current_user_idx < Len(S.active_users))
        /\ rr_legacy.call.outcome # "IndexError"

\* a remove_user call found the cursor beyond the shortened, non-empty list
\* and put it back to 0
C38_Witness ==
    /\ rr_legacy.call.op = "remove_user"
    /\ rr_legacy.scheduler.active_users # <<>>
    /\ rr_legacy.call.previous_idx >= Len(rr_legacy.scheduler.active_users)
    /\ rr_legacy.scheduler.current_user_idx = 0

\* the blocks of a TTI that belong to a user
BlocksOf(G, tti, user_id) ==
    { b \in DOMAIN G.blocks : b[1] = tti /\ G.blocks[b].UE_ID = user_id }

\* C39: schedule on a TTI whose RBs are all free, with N >= 2 registered
\* users, assigns RBs so that the numbers of RBs given to any two users
\* differ by at most one, for even and odd N.
C39_LegacyEven ==
    LET S == rr_legacy.scheduler
        call == rr_legacy.call
    IN  ( /\ call.op = "schedule"
          /\ call.free_rbs = 2 * LegacyNumRb
          /\ Len(S.active_users) >= 2 )
        => \A u, v \in SeqRange(S.active_users) :
               Cardinality(BlocksOf(S.lte_grid, call.tti, u))
                   <= Cardinality(BlocksOf(S.lte_grid, call.tti, v)) + 1

-----------------------------------------------------------------------------
(* TRAFFIC_MODEL.py: OnOffModel.  Times are in ms.  generate_traffic        *)
(* compares end_state_time only with times of the window it is called for, *)
(* (current_time - update_interval, current_time]; the model keeps          *)
(* end_state_time relative to the start of the next window, which is the    *)
(* current_time of the last call (the simulation loop calls it once per     *)
(* update_interval, each window starting where the last one ended).         *)

\* update_interval is 1 .. MaxUpdateInterval
MaxUpdateInterval == 3
\* np.random.exponential(duration) * 1000 is 1 .. MaxDuration
MaxDuration == 2
\* np.random.exponential(mean_interval_ms) is 1 .. MaxPacketInterval
MaxPacketInterval == 3

\* while t < end_generate: every [t, packets] the loop can end with, one
\* for each sequence of intervals drawn
RECURSIVE PacketLoop(_, _, _)
PacketLoop(t, end_generate, packets) ==
    IF t >= end_generate
    THEN { [ t |-> t, packets |-> packets ] }
    ELSE UNION { IF t + interval > end_generate
                 THEN { [ t |-> t + interval, packets |-> packets ] }
                 ELSE PacketLoop(t + interval, end_generate, packets + 1) :
                     interval \in 1 .. MaxPacketInterval }

\* while t < current_time: every [state_data, packets, toggles] the loop can
\* end with; toggles counts the changes of state made on the way
RECURSIVE StateLoop(_, _, _, _, _)
StateLoop(state_data, t, current_time, packets, toggles) ==
    IF t >= current_time
    THEN { [ state_data |-> state_data, packets |-> packets, toggles |-> toggles ] }
    ELSE LET ends == /\ t < state_data.end_state_time
                     /\ state_data.end_state_time <= current_time
             end_state == IF ends THEN state_data.end_state_time ELSE current_time
             toggled == IF ends THEN toggles + 1 ELSE toggles
         IN  IF state_data.state = "ON"
             THEN UNION { UNION { StateLoop(next, p.t, current_time, p.packets, toggled) :
                                      p \in PacketLoop(t, end_state, packets) } :
                              next \in IF ends
                                       THEN { [ state |-> "OFF",
                                                end_state_time |-> end_state + off_state_time ] :
                                                  off_state_time \in 1 .. MaxDuration }
                                       ELSE { state_data } }
             ELSE UNION { StateLoop(next, end_state, current_time, packets, toggled) :
                              next \in IF ends
                                       THEN { [ state |-> "ON",
                                                end_state_time |-> end_state + on_state_time ] :
                                                  on_state_time \in 1 .. MaxDuration }
                                       ELSE { state_data } }

\* end_state_time relative to the start of the next window; one that is not
\* after that start is never again after the t of a later call, and is kept
\* as 0
Rebase(state_data, current_time) ==
    [ state_data EXCEPT !.end_state_time =
          IF @ > current_time THEN @ - current_time ELSE 0 ]

\* OnOffModel.generate_traffic for the window that starts at 0 and ends at
\* current_time = update_interval: every [device_states, packets, toggles]
\* it can produce
generate_traffic(device_states, UE_ID, update_interval) ==
    LET current_time == update_interval
        t == current_time - update_interval
        initial == IF UE_ID \in DOMAIN device_states
                   THEN { device_states[UE_ID] }
                   ELSE { [ state |-> initial_state, end_state_time |-> t + state_time ] :
                              initial_state \in { "ON", "OFF" },
                              state_time \in 1 .. MaxDuration }
    IN  UNION { { [ device_states |->
                      DictPut(device_states, UE_ID, Rebase(r.state_data, current_time)),
                    packets |-> r.packets, toggles |-> r.toggles ] :
                      r \in StateLoop(state_data, t, current_time, 0, 0) } :
                  state_data \in initial }

(* The simulation loop on one OnOffModel (SpecOnOff): generate_traffic is   *)
(* called for every UE again and again, window after window                *)

InitOnOffSpec ==
    /\ lte_grid = NoGrid
    /\ grid_call = InitGridCall
    /\ buffer = InitBuffer
    /\ buf_call = InitBufCall
    /\ clock = 0
    /\ calls = 0
    /\ NoScheduler
    /\ amc_call = EmptyDict
    /\ fairness_call = EmptyDict
    /\ rr_legacy = EmptyDict
    /\ on_off = [ device_states |-> EmptyDict,
                  call |-> [ UE_ID |-> NoUE, update_interval |-> 0, packets |-> 0,
                             toggles |-> 0 ] ]

GenerateTraffic(UE_ID) ==
    \E update_interval \in 1 .. MaxUpdateInterval :
        \E r \in generate_traffic(on_off.device_states, UE_ID, update_interval) :
            /\ on_off' = [ device_states |-> r.device_states,
                           call |-> [ UE_ID |-> UE_ID, update_interval |-> update_interval,
                                      packets |-> r.packets, toggles |-> r.toggles ] ]
            /\ UNCHANGED <<gridVars, bufVars, schedVars, clock, calls, amc_call,
                           fairness_call, rr_legacy>>

NextOnOff == \E UE_ID \in UEs : GenerateTraffic(UE_ID)

\* the loop never stops calling generate_traffic for any UE
SpecOnOff ==
    /\ InitOnOffSpec
    /\ [][NextOnOff]_vars
    /\ \A UE_ID \in UEs : WF_vars(GenerateTraffic(UE_ID))

(* Claims about the ON/OFF model, checked under SpecOnOff *)

\* C40: for every UE the state always eventually toggles again: whatever
\* has happened, a later generate_traffic call for the UE changes its
\* state from ON to OFF or from OFF to ON.
C40_KeepsAlternating ==
    \A UE_ID \in UEs :
        []<>(on_off.call.UE_ID = UE_ID /\ on_off.call.toggles > 0)

====
